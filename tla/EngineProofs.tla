---------------------------- MODULE EngineProofs ----------------------------
(***************************************************************************)
(* Proofs about the discovery of functions, for every image, layout of     *)
(* sections and limit; lemmas about the listings and the detector; and     *)
(* what TLC runs, AnySpec, one part of decompile at a time.                *)
(* Of each part its invariant holds while the part is at work, and the     *)
(* others leave its state alone; so the theorems about the parts hold of   *)
(* AnySpec.                                                                *)
(*                                                                         *)
(* Discovery is a search: what is known and no longer queued has its calls *)
(* known.  Sizes inferred afterwards only take bytes away from a function, *)
(* so the calls it is printed with are among those that were followed.     *)
(***************************************************************************)
EXTENDS Engines, ReaderProofs

-----------------------------------------------------------------------------
(***************************************************************************)
(* FunctionTable.                                                          *)
(***************************************************************************)
Records == [size : Nat, name : AllNames,
            origin : {"symbol", "pe-pdata", "entry-point", "recursive-call"}]

IsTable(t) ==
  /\ t = [a \in DOMAIN t |-> t[a]]
  /\ IsFiniteSet(DOMAIN t)
  /\ \A a \in DOMAIN t : a \in Nat /\ HasSection(a) /\ t[a] \in Records

\* What is left to insert comes from the image.
SeedInv ==
  /\ image \in Images
  /\ symbols \in Seq([address : Nat, size : Nat, name : SymbolNames])
  /\ \A k \in DOMAIN symbols : symbols[k].address = 0 \/ HasSection(symbols[k].address)
  /\ pdata \in Seq([begin : Nat, end : Nat])

ListInv ==
  phase # "symbols" => /\ functions \in Seq(DOMAIN table)
                       /\ Range(functions) = DOMAIN table
                       /\ Len(functions) = Cardinality(DOMAIN table)

\* The calls of a function, decoded as far as its size goes, are known.
Closed(a) ==
  \A t \in CallTargets(a, BytesOf(a, table[a].size)) : Executable(t) => t \in known

\* The search of discover_x86_functions.
SearchInv ==
  phase = "discover" =>
    /\ known = DOMAIN table
    /\ queue \in Seq(known) /\ IsInjective(queue)
    /\ \A a \in known \ Range(queue) : Closed(a)

\* What it leaves, unless it was not begun or a limit stopped it.
SearchedInv ==
  /\ phase = "symbols" => known = {}
  /\ phase \in {"sizes", "done"} =>
       known = {} \/ /\ known = DOMAIN table
                     /\ Cardinality(known) < MaxDiscovered => \A a \in known : Closed(a)

IInv ==
  /\ phase \in {"symbols", "discover", "sizes", "done"}
  /\ SeedInv /\ IsTable(table) /\ ListInv /\ SearchInv /\ SearchedInv

-----------------------------------------------------------------------------
\* The members of a finite set, by rank, are those of the set, each once.
LEMMA Ranks ==
  ASSUME NEW S \in SUBSET Nat, IsFiniteSet(S)
  PROVE  /\ InOrder(S) \in Seq(S)
         /\ Len(InOrder(S)) = Cardinality(S)
         /\ Range(InOrder(S)) = S
         /\ IsInjective(InOrder(S))
<1> DEFINE n == Cardinality(S)
           Smaller(a) == {b \in S : b < a}
           rank == [a \in S |-> Cardinality(Smaller(a)) + 1]
           q == InOrder(S)
<1>1. n \in Nat
  BY FS_CardinalityType
<1>2. ASSUME NEW a \in S
      PROVE  /\ IsFiniteSet(Smaller(a)) /\ Cardinality(Smaller(a)) \in Nat
             /\ Cardinality(Smaller(a)) < n
  <2>1. Smaller(a) \in SUBSET S /\ a \notin Smaller(a)
    OBVIOUS
  <2>2. IsFiniteSet(Smaller(a)) /\ Cardinality(Smaller(a)) <= n /\ Cardinality(Smaller(a)) # n
    BY <2>1, FS_Subset
  <2> QED
    BY <1>1, <2>2, FS_CardinalityType
<1>3. ASSUME NEW a \in S, NEW c \in S, a < c
      PROVE  Cardinality(Smaller(a)) # Cardinality(Smaller(c))
  <2>1. a \in Nat /\ c \in Nat /\ \A b \in S : b \in Nat
    OBVIOUS
  <2>2. \A b \in S : b < a => b < c
    BY <1>3, <2>1
  <2>3. Smaller(a) \in SUBSET Smaller(c) /\ a \in Smaller(c)
    BY <1>3, <2>2
  <2>4. a \notin Smaller(a)
    BY <2>1
  <2> QED
    BY <1>2, <2>3, <2>4, FS_Subset
<1>4. \A a, c \in S : Cardinality(Smaller(a)) = Cardinality(Smaller(c)) => a = c
  BY <1>3
<1>5. q = [i \in 1 .. n |-> CHOOSE a \in S : Cardinality(Smaller(a)) = i - 1]
  BY DEF InOrder
<1> HIDE DEF Smaller, q
<1>6. rank \in Injection(S, 1 .. n)
  <2>1. rank \in [S -> 1 .. n]
    BY <1>1, <1>2
  <2>2. IsInjective(rank)
    BY <1>2, <1>4 DEF IsInjective
  <2> QED
    BY <2>1, <2>2 DEF Injection
<1>7. rank \in Surjection(S, 1 .. n)
  <2>1. IsFiniteSet(1 .. n) /\ Cardinality(1 .. n) = n
    BY <1>1, FS_Interval
  <2> QED
    BY <1>6, <2>1, FS_Injection
<1>8. ASSUME NEW i \in 1 .. n
      PROVE  \E a \in S : Cardinality(Smaller(a)) = i - 1
  <2>1. PICK a \in S : rank[a] = i
    BY <1>7 DEF Surjection
  <2> QED
    BY <1>2, <2>1
<1>9. \A i \in 1 .. n : q[i] \in S /\ Cardinality(Smaller(q[i])) = i - 1
  BY <1>8, <1>5
<1>10. q \in Seq(S) /\ Len(q) = n /\ DOMAIN q = 1 .. n
  BY <1>1, <1>5, <1>9
<1>11. \A a \in S : \E i \in 1 .. n : q[i] = a
  <2>1. ASSUME NEW a \in S PROVE \E i \in 1 .. n : q[i] = a
    <3>1. rank[a] \in 1 .. n /\ rank[a] = Cardinality(Smaller(a)) + 1
      BY <1>1, <1>2
    <3>2. Cardinality(Smaller(q[rank[a]])) = Cardinality(Smaller(a)) /\ q[rank[a]] \in S
      BY <1>2, <1>9, <3>1
    <3> QED
      BY <1>4, <3>1, <3>2
  <2> QED
    BY <2>1
<1>12. Range(q) = S
  BY <1>9, <1>10, <1>11 DEF Range
<1>13. IsInjective(q)
  BY <1>1, <1>9, <1>10 DEF IsInjective
<1> QED
  BY <1>10, <1>12, <1>13 DEF q

-----------------------------------------------------------------------------
\* An address lies in one section only.
LEMMA OneSection ==
  ASSUME NEW a \in Nat, HasSection(a)
  PROVE  /\ SectionOf(a) \in Sections
         /\ SectionStart[SectionOf(a)] \in Nat /\ SectionEnd[SectionOf(a)] \in Nat
         /\ SectionStart[SectionOf(a)] <= a /\ a < SectionEnd[SectionOf(a)]
         /\ \A s \in Sections : InSection(a, s) => s = SectionOf(a)
<1>1. SectionOf(a) \in Sections /\ InSection(a, SectionOf(a))
  BY DEF HasSection, SectionOf
<1>2. ASSUME NEW s \in Sections, InSection(a, s) PROVE s = SectionOf(a)
  BY <1>1, <1>2, SectionAssumption DEF InSection
<1> QED
  BY <1>1, <1>2, SectionAssumption DEF InSection

\* A function reads no further than its section.
LEMMA BytesInSection ==
  ASSUME NEW a \in Nat, HasSection(a), NEW n \in Nat
  PROVE  /\ BytesOf(a, n) \in Nat
         /\ a + BytesOf(a, n) <= SectionEnd[SectionOf(a)]
BY OneSection, BoundAssumption DEF BytesOf, Lesser

\* Fewer bytes hold fewer calls.
LEMMA FewerBytes ==
  ASSUME NEW a \in Nat, NEW m \in Nat, NEW n \in Nat, m <= n
  PROVE  CallTargets(a, m) \subseteq CallTargets(a, n)
BY DEF CallTargets

\* The new calls of a function are finitely many addresses of sections.
LEMMA NewCallsFacts ==
  ASSUME IInv, NEW a \in DOMAIN table
  PROVE  /\ IsFiniteSet(NewCalls(a))
         /\ \A t \in NewCalls(a) : t \in Nat /\ HasSection(t) /\ t \notin known
<1> DEFINE n == BytesOf(a, table[a].size)
           Calls == {x \in a .. a + n - 1 :
                       image.code[x].kind = "call" /\ \A y \in a .. x - 1 : image.code[y].kind # "return"}
           target == [b \in Calls |-> image.code[b].target]
           T == CallTargets(a, n)
<1>1. a \in Nat /\ HasSection(a) /\ table[a].size \in Nat /\ image \in Images
  BY DEF IInv, IsTable, SeedInv, Records
<1>2. n \in Nat /\ a + n <= SectionEnd[SectionOf(a)]
  BY <1>1, BytesInSection
<1>3. IsFiniteSet(Calls)
  <2>1. IsFiniteSet(a .. a + n - 1)
    BY <1>1, <1>2, FS_Interval
  <2> QED
    BY <2>1, FS_Subset
<1>4. target \in Surjection(Calls, T)
  BY DEF Surjection, CallTargets
<1>5. IsFiniteSet(T)
  BY <1>3, <1>4, FS_Surjection
<1>6. IsFiniteSet(NewCalls(a))
  <2>1. NewCalls(a) \in SUBSET T
    BY DEF NewCalls
  <2> QED
    BY <1>5, <2>1, FS_Subset
<1>7. \A b \in Calls : b \in SectionStart[SectionOf(a)] .. SectionEnd[SectionOf(a)] - 1
  BY <1>1, <1>2, OneSection
<1>8. \A b \in Calls : image.code[b].target \in Nat
  BY <1>1, <1>7, OneSection, ImageAssumption
<1>9. \A t \in NewCalls(a) : t \in Nat /\ Executable(t) /\ t \notin known
  BY <1>8 DEF NewCalls, CallTargets
<1>10. \A t \in NewCalls(a) : HasSection(t)
  BY <1>9, SectionAssumption DEF Executable, HasSection
<1> QED
  BY <1>6, <1>9, <1>10

\* An inferred size keeps clear of the end of the section and of what follows.
LEMMA Inferred ==
  ASSUME IsTable(table), NEW a \in DOMAIN table
  PROVE  /\ InferredSize(a) \in Nat \ {0}
         /\ InferredSize(a) <= BytesOf(a, 0)
         /\ a + InferredSize(a) <= SectionEnd[SectionOf(a)]
         /\ \A b \in DOMAIN table : b > a => a + InferredSize(a) <= b
<1> DEFINE end == IF Following(a) = {} THEN SectionEnd[SectionOf(a)]
                  ELSE CHOOSE b \in Following(a) : \A c \in Following(a) : b <= c
<1>1. /\ a \in Nat /\ HasSection(a)
      /\ SectionOf(a) \in Sections
      /\ SectionStart[SectionOf(a)] \in Nat /\ SectionEnd[SectionOf(a)] \in Nat
      /\ SectionStart[SectionOf(a)] <= a /\ a < SectionEnd[SectionOf(a)]
  BY OneSection DEF IsTable
<1>2. \A b \in Following(a) : b \in DOMAIN table /\ b \in Nat /\ b > a /\ b < SectionEnd[SectionOf(a)]
  <2>1. ASSUME NEW b \in Following(a)
        PROVE  b \in DOMAIN table /\ b \in Nat /\ b > a /\ b < SectionEnd[SectionOf(a)]
    <3>1. b \in DOMAIN table /\ b > a /\ SectionOf(b) = SectionOf(a)
      BY DEF Following
    <3>2. b \in Nat /\ HasSection(b)
      BY <3>1 DEF IsTable
    <3>3. b < SectionEnd[SectionOf(b)]
      BY <3>2, OneSection
    <3> QED
      BY <3>1, <3>2, <3>3
  <2> QED
    BY <2>1
<1>3. /\ end \in Nat /\ a < end /\ end <= SectionEnd[SectionOf(a)]
      /\ \A c \in Following(a) : end <= c
  <2>1. CASE Following(a) = {}
    BY <1>1, <2>1
  <2>2. CASE Following(a) # {}
    <3>1. Following(a) \in SUBSET Nat
      BY <1>2
    <3>2. \E b \in Following(a) : \A c \in Following(a) : b <= c
      BY <2>2, <3>1, Least
    <3>3. end \in Following(a) /\ \A c \in Following(a) : end <= c
      BY <2>2, <3>2
    <3> HIDE DEF end
    <3> QED
      BY <1>1, <1>2, <3>3
  <2> QED
    BY <2>1, <2>2
<1>4. InferredSize(a) = Lesser(end - a, UnknownLimit)
  BY DEF InferredSize
<1> HIDE DEF end
<1>5. /\ InferredSize(a) \in Nat \ {0} /\ a + InferredSize(a) <= end
      /\ InferredSize(a) <= UnknownLimit
  BY <1>1, <1>3, <1>4, BoundAssumption DEF Lesser
<1>6. InferredSize(a) <= BytesOf(a, 0)
  BY <1>1, <1>3, <1>5, BoundAssumption DEF BytesOf, Lesser
<1>7. ASSUME NEW b \in DOMAIN table, b > a
      PROVE  a + InferredSize(a) <= b
  <2>1. b \in Nat /\ HasSection(b)
    BY DEF IsTable
  <2>2. CASE SectionOf(b) = SectionOf(a)
    <3>1. b \in Following(a)
      BY <1>7, <2>2 DEF Following
    <3> QED
      BY <1>1, <1>3, <1>5, <2>1, <3>1
  <2>3. CASE SectionOf(b) # SectionOf(a)
    <3>1. /\ SectionOf(b) \in Sections
          /\ SectionStart[SectionOf(b)] \in Nat /\ SectionEnd[SectionOf(b)] \in Nat
          /\ SectionStart[SectionOf(b)] <= b /\ b < SectionEnd[SectionOf(b)]
      BY <2>1, OneSection
    <3>2. \/ SectionEnd[SectionOf(a)] <= SectionStart[SectionOf(b)]
          \/ SectionEnd[SectionOf(b)] <= SectionStart[SectionOf(a)]
      BY <1>1, <2>3, <3>1, SectionAssumption
    <3> QED
      BY <1>1, <1>3, <1>5, <1>7, <2>1, <3>1, <3>2
  <2> QED
    BY <2>2, <2>3
<1> QED
  BY <1>1, <1>3, <1>5, <1>6, <1>7

-----------------------------------------------------------------------------
\* insert_function adds an address; a function with a name it leaves alone, or it fills in
\* a size, with the name and origin that came with the size if there is a name.
LEMMA Insertion ==
  ASSUME NEW t, IsTable(t), NEW a \in Nat, HasSection(a), NEW f \in Records
  PROVE  /\ IsTable(Insert(t, a, f))
         /\ DOMAIN Insert(t, a, f) = DOMAIN t \cup {a}
         /\ \A b \in DOMAIN t : b # a => Insert(t, a, f)[b] = t[b]
         /\ a \in DOMAIN t /\ Named(t[a]) =>
              \/ Insert(t, a, f)[a] = t[a]
              \/ /\ t[a].size = 0 /\ f.size # 0
                 /\ IF Named(f) THEN Insert(t, a, f)[a] = f
                    ELSE Insert(t, a, f)[a] = [t[a] EXCEPT !.size = f.size]
<1>1. ASSUME NEW g \in Records
      PROVE  /\ IsTable(Put(t, a, g))
             /\ DOMAIN Put(t, a, g) = DOMAIN t \cup {a}
             /\ \A b \in DOMAIN t : b # a => Put(t, a, g)[b] = t[b]
             /\ Put(t, a, g)[a] = g
  <2>1. IsFiniteSet(DOMAIN t \cup {a})
    BY FS_AddElement DEF IsTable
  <2>2. DOMAIN Put(t, a, g) = DOMAIN t \cup {a} /\ Put(t, a, g)[a] = g
    BY DEF Put
  <2>3. \A b \in DOMAIN t : b # a => Put(t, a, g)[b] = t[b]
    BY DEF Put
  <2>4. Put(t, a, g) = [b \in DOMAIN Put(t, a, g) |-> Put(t, a, g)[b]]
    BY DEF Put
  <2> QED
    BY <2>1, <2>2, <2>3, <2>4 DEF IsTable
<1>2. CASE a \notin DOMAIN t
  <2>1. Insert(t, a, f) = Put(t, a, f)
    BY <1>2 DEF Insert
  <2> QED
    BY <1>1, <1>2, <2>1
<1>3. CASE a \in DOMAIN t /\ Named(f) /\ ~Named(t[a])
  <2>1. Insert(t, a, f) = Put(t, a, f)
    BY <1>3 DEF Insert
  <2> QED
    BY <1>1, <1>3, <2>1
<1>4. CASE a \in DOMAIN t /\ ~(Named(f) /\ ~Named(t[a])) /\ t[a].size = 0 /\ f.size # 0
  <2> DEFINE merged == Filled(t[a], f)
  <2>1. Insert(t, a, f) = Put(t, a, merged)
    BY <1>4 DEF Insert
  <2>2. t[a] \in Records /\ merged \in Records
    BY <1>4 DEF IsTable, Records, Filled
  <2>3. Named(f) => merged = f
    BY DEF Filled, Records
  <2>4. ~Named(f) => merged = [t[a] EXCEPT !.size = f.size]
    BY <2>2 DEF Filled, Records
  <2> HIDE DEF merged
  <2> QED
    BY <1>1, <1>4, <2>1, <2>2, <2>3, <2>4
<1>5. CASE a \in DOMAIN t /\ ~(Named(f) /\ ~Named(t[a])) /\ ~(t[a].size = 0 /\ f.size # 0)
  <2>1. Insert(t, a, f) = t
    BY <1>5 DEF Insert
  <2> QED
    BY <1>5, <2>1
<1> QED
  BY <1>2, <1>3, <1>4, <1>5

\* The functions at other addresses stay as they are.
LEMMA OthersStay ==
  ASSUME NEW t, IsTable(t), NEW a \in Nat, HasSection(a), NEW f \in Records
  PROVE  \A b \in DOMAIN t : b # a => Insert(t, a, f)[b] = t[b]
BY Insertion

-----------------------------------------------------------------------------
\* Taking from the front of a list, and adding to its end.
LEMMA TakenFrom ==
  ASSUME NEW S, NEW s \in Seq(S), s # <<>>
  PROVE  /\ Head(s) \in S /\ Head(s) = s[1] /\ 1 \in DOMAIN s
         /\ Tail(s) \in Seq(S)
         /\ \A k \in DOMAIN Tail(s) : k + 1 \in DOMAIN s /\ Tail(s)[k] = s[k + 1]
         /\ Range(s) = {Head(s)} \cup Range(Tail(s))
         /\ IsInjective(s) => IsInjective(Tail(s))
<1>1. Len(s) \in Nat \ {0} /\ DOMAIN s = 1 .. Len(s)
  OBVIOUS
<1>2. Head(s) = s[1] /\ s[1] \in S /\ Tail(s) \in Seq(S) /\ DOMAIN Tail(s) = 1 .. Len(s) - 1
  OBVIOUS
<1>3. \A k \in 1 .. Len(s) - 1 : k + 1 \in 1 .. Len(s) /\ Tail(s)[k] = s[k + 1]
  BY <1>1
<1>4. \A k \in 2 .. Len(s) : k - 1 \in 1 .. Len(s) - 1 /\ Tail(s)[k - 1] = s[k]
  BY <1>1
<1>5. Range(s) = {Head(s)} \cup Range(Tail(s))
  <2>1. \A k \in 1 .. Len(s) : s[k] \in {Head(s)} \cup Range(Tail(s))
    <3>1. ASSUME NEW k \in 1 .. Len(s), k # 1 PROVE s[k] \in Range(Tail(s))
      <4>1. k - 1 \in DOMAIN Tail(s) /\ Tail(s)[k - 1] = s[k]
        BY <1>1, <1>2, <1>4, <3>1
      <4> QED
        BY <4>1 DEF Range
    <3> QED
      BY <1>2, <3>1
  <2>2. \A k \in DOMAIN Tail(s) : Tail(s)[k] \in Range(s)
    BY <1>1, <1>2, <1>3 DEF Range
  <2>3. Head(s) \in Range(s)
    BY <1>1, <1>2 DEF Range
  <2> QED
    BY <1>1, <2>1, <2>2, <2>3 DEF Range
<1>6. IsInjective(s) => IsInjective(Tail(s))
  BY <1>1, <1>2, <1>3 DEF IsInjective
<1>7. \A k \in DOMAIN Tail(s) : k + 1 \in DOMAIN s /\ Tail(s)[k] = s[k + 1]
  BY <1>1, <1>2, <1>3
<1>8. 1 \in DOMAIN s
  BY <1>1
<1> QED
  BY <1>2, <1>5, <1>6, <1>7, <1>8

LEMMA AddedTo ==
  ASSUME NEW S, NEW s \in Seq(S), NEW t \in Seq(S)
  PROVE  /\ s \o t \in Seq(S) /\ Len(s \o t) = Len(s) + Len(t)
         /\ Range(s \o t) = Range(s) \cup Range(t)
         /\ IsInjective(s) /\ IsInjective(t) /\ Range(s) \cap Range(t) = {} => IsInjective(s \o t)
<1> DEFINE m == Len(s)
           n == Len(t)
           u == s \o t
<1>1. /\ m \in Nat /\ n \in Nat /\ u \in Seq(S) /\ Len(u) = m + n
      /\ DOMAIN s = 1 .. m /\ DOMAIN t = 1 .. n /\ DOMAIN u = 1 .. m + n
  OBVIOUS
<1>2. \A i \in 1 .. m : i \in 1 .. m + n /\ u[i] = s[i]
  BY <1>1
<1>3. \A i \in 1 .. n : i + m \in 1 .. m + n /\ u[i + m] = t[i]
  BY <1>1
<1>4. \A i \in 1 .. m + n : i \in 1 .. m \/ (i - m \in 1 .. n /\ u[i] = t[i - m])
  BY <1>1
<1> HIDE DEF m, n, u
<1>5. Range(u) = Range(s) \cup Range(t)
  <2>1. Range(s) = {s[i] : i \in 1 .. m} /\ Range(t) = {t[i] : i \in 1 .. n}
        /\ Range(u) = {u[i] : i \in 1 .. m + n}
    BY <1>1 DEF Range
  <2>2. ASSUME NEW x \in Range(u)  PROVE  x \in Range(s) \cup Range(t)
    <3>1. PICK i \in 1 .. m + n : x = u[i]
      BY <2>1, <2>2
    <3>2. CASE i \in 1 .. m
      BY <1>2, <2>1, <3>1, <3>2
    <3>3. CASE i \notin 1 .. m
      BY <1>4, <2>1, <3>1, <3>3
    <3> QED
      BY <3>2, <3>3
  <2>3. ASSUME NEW x \in Range(s)  PROVE  x \in Range(u)
    BY <1>2, <2>1, <2>3
  <2>4. ASSUME NEW x \in Range(t)  PROVE  x \in Range(u)
    BY <1>3, <2>1, <2>4
  <2> QED
    BY <2>2, <2>3, <2>4
<1>6. ASSUME IsInjective(s), IsInjective(t), Range(s) \cap Range(t) = {},
             NEW i \in 1 .. m + n, NEW j \in 1 .. m + n, u[i] = u[j]
      PROVE  i = j
  <2>1. CASE i \in 1 .. m /\ j \in 1 .. m
    BY <1>1, <1>2, <1>6, <2>1 DEF IsInjective
  <2>2. CASE i \notin 1 .. m /\ j \notin 1 .. m
    <3>1. i - m \in 1 .. n /\ j - m \in 1 .. n /\ t[i - m] = t[j - m]
      BY <1>4, <1>6, <2>2
    <3>2. i - m = j - m
      BY <1>1, <1>6, <3>1 DEF IsInjective
    <3> QED
      BY <1>1, <3>2
  <2>3. CASE i \in 1 .. m /\ j \notin 1 .. m
    <3>1. u[i] \in Range(s) /\ u[j] \in Range(t)
      BY <1>1, <1>2, <1>4, <2>3 DEF Range
    <3> QED
      BY <1>6, <3>1
  <2>4. CASE i \notin 1 .. m /\ j \in 1 .. m
    <3>1. u[j] \in Range(s) /\ u[i] \in Range(t)
      BY <1>1, <1>2, <1>4, <2>4 DEF Range
    <3> QED
      BY <1>6, <3>1
  <2> QED
    BY <2>1, <2>2, <2>3, <2>4
<1>7. IsInjective(s) /\ IsInjective(t) /\ Range(s) \cap Range(t) = {} => IsInjective(u)
  BY <1>1, <1>6 DEF IsInjective
<1> QED
  BY <1>1, <1>5, <1>7 DEF u, m, n

-----------------------------------------------------------------------------
LEMMA Initial == Init => IInv
<1> SUFFICES ASSUME Init PROVE IInv
  OBVIOUS
<1>1. SeedInv
  <2>1. \A k \in DOMAIN symbols : symbols[k].address = 0 \/ HasSection(symbols[k].address)
    <3>1. ASSUME NEW k \in DOMAIN symbols, symbols[k].address # 0
          PROVE  HasSection(symbols[k].address)
      <4>1. PICK s \in Sections : symbols[k].address \in SectionStart[s] .. SectionEnd[s] - 1
        BY <3>1, ImageAssumption DEF Init
      <4> QED
        BY <4>1, SectionAssumption DEF HasSection, InSection
    <3> QED
      BY <3>1
  <2> QED
    BY <2>1, ImageAssumption DEF Init, SeedInv
<1>2. IsTable(table)
  BY FS_EmptySet DEF Init, IsTable
<1> QED
  BY <1>1, <1>2 DEF Init, IInv, ListInv, SearchInv, SearchedInv

LEMMA SymbolAdded == IInv /\ AddSymbol => IInv'
<1> SUFFICES ASSUME IInv, AddSymbol PROVE IInv'
  OBVIOUS
<1> DEFINE s == Head(symbols)
           f == OfSymbol(s)
<1>1. /\ phase = "symbols" /\ phase' = "symbols" /\ image' = image /\ pdata' = pdata
      /\ known' = known /\ symbols # <<>> /\ symbols' = Tail(symbols)
      /\ table' = IF s.address = 0 THEN table ELSE Insert(table, s.address, f)
  BY DEF AddSymbol
<1>2. /\ s \in [address : Nat, size : Nat, name : SymbolNames]
      /\ s = symbols[1] /\ 1 \in DOMAIN symbols
      /\ symbols' \in Seq([address : Nat, size : Nat, name : SymbolNames])
      /\ \A k \in DOMAIN symbols' : k + 1 \in DOMAIN symbols /\ symbols'[k] = symbols[k + 1]
  BY <1>1, TakenFrom DEF IInv, SeedInv
<1>3. SeedInv'
  BY <1>1, <1>2 DEF IInv, SeedInv, HasSection, InSection, Sections
<1>4. IsTable(table)'
  <2>1. CASE s.address = 0
    BY <1>1, <2>1 DEF IInv, IsTable
  <2>2. CASE s.address # 0
    <3>1. s.address \in Nat /\ HasSection(s.address) /\ f \in Records
      BY <1>2, <2>2 DEF IInv, SeedInv, Records, OfSymbol, AllNames
    <3> HIDE DEF f
    <3>2. IsTable(Insert(table, s.address, f))
      BY <3>1, Insertion DEF IInv
    <3> QED
      BY <1>1, <2>2, <3>2 DEF IsTable
  <2> QED
    BY <2>1, <2>2
<1> QED
  BY <1>1, <1>3, <1>4 DEF IInv, ListInv, SearchInv, SearchedInv

LEMMA PdataAdded == IInv /\ AddPdata => IInv'
<1> SUFFICES ASSUME IInv, AddPdata PROVE IInv'
  OBVIOUS
<1> DEFINE p == Head(pdata)
           f == OfRecord(p)
<1>1. /\ phase = "symbols" /\ phase' = "symbols" /\ image' = image /\ symbols' = symbols
      /\ known' = known /\ pdata # <<>> /\ pdata' = Tail(pdata)
      /\ table' = IF Skipped(p) THEN table ELSE Insert(table, p.begin, f)
  BY DEF AddPdata
<1>2. p \in [begin : Nat, end : Nat] /\ pdata' \in Seq([begin : Nat, end : Nat])
  BY <1>1, TakenFrom DEF IInv, SeedInv
<1>3. SeedInv'
  BY <1>1, <1>2 DEF IInv, SeedInv, HasSection, InSection, Sections
<1>4. IsTable(table)'
  <2>1. CASE Skipped(p)
    BY <1>1, <2>1 DEF IInv, IsTable
  <2>2. CASE ~Skipped(p)
    <3>1. p.begin \in Nat /\ HasSection(p.begin) /\ f \in Records
      BY <1>2, <2>2 DEF Records, OfRecord, AllNames, Skipped, Generated
    <3> HIDE DEF f
    <3>2. IsTable(Insert(table, p.begin, f))
      BY <3>1, Insertion DEF IInv
    <3> QED
      BY <1>1, <2>2, <3>2 DEF IsTable
  <2> QED
    BY <2>1, <2>2
<1> QED
  BY <1>1, <1>3, <1>4 DEF IInv, ListInv, SearchInv, SearchedInv

\* The entry point's record has no size: it brings no name to a function that has one.
LEMMA EntryInserted ==
  ASSUME IInv
  PROVE  /\ IsTable(WithEntry)
         /\ \A b \in DOMAIN table : b \in DOMAIN WithEntry
         /\ \A b \in DOMAIN table : Named(table[b]) => WithEntry[b] = table[b]
<1> DEFINE f == OfEntry
<1>1. CASE image.entry = 0 \/ ~HasSection(image.entry)
  BY <1>1 DEF IInv, WithEntry
<1>2. CASE ~(image.entry = 0 \/ ~HasSection(image.entry))
  <2>1. WithEntry = Insert(table, image.entry, f)
    BY <1>2 DEF WithEntry
  <2>2. image.entry \in Nat /\ HasSection(image.entry)
    BY <1>2, ImageAssumption DEF IInv, SeedInv
  <2>3. f \in Records /\ f.size = 0
    BY DEF Records, OfEntry, AllNames
  <2> HIDE DEF f
  <2>4. IsTable(table)
    BY DEF IInv
  <2>5. /\ IsTable(WithEntry) /\ DOMAIN WithEntry = DOMAIN table \cup {image.entry}
        /\ \A b \in DOMAIN table : b # image.entry => WithEntry[b] = table[b]
    <3>1. /\ IsTable(Insert(table, image.entry, f))
          /\ DOMAIN Insert(table, image.entry, f) = DOMAIN table \cup {image.entry}
          /\ \A b \in DOMAIN table : b # image.entry =>
               Insert(table, image.entry, f)[b] = table[b]
      BY <2>2, <2>3, <2>4, Insertion, Zenon
    <3> QED
      BY <2>1, <3>1
  <2>6. ASSUME image.entry \in DOMAIN table, Named(table[image.entry])
        PROVE  WithEntry[image.entry] = table[image.entry]
    <3>1. \/ Insert(table, image.entry, f)[image.entry] = table[image.entry]
          \/ f.size # 0
      BY <2>2, <2>3, <2>4, <2>6, Insertion
    <3> QED
      BY <2>1, <2>3, <3>1
  <2> QED
    BY <2>5, <2>6
<1> QED
  BY <1>1, <1>2

LEMMA EntryAdded == IInv /\ AddEntry => IInv'
<1> SUFFICES ASSUME IInv, AddEntry PROVE IInv'
  OBVIOUS
<1> DEFINE D == DOMAIN WithEntry
<1>1. /\ phase = "symbols" /\ image' = image /\ symbols' = symbols /\ pdata' = pdata
      /\ table' = WithEntry /\ functions' = InOrder(D)
      /\ \/ phase' = "sizes" /\ known' = known
         \/ phase' = "discover" /\ known' = D /\ queue' = InOrder(D)
  BY DEF AddEntry
<1>2. IsTable(WithEntry) /\ D \in SUBSET Nat /\ IsFiniteSet(D)
  BY EntryInserted DEF IsTable
<1>3. /\ InOrder(D) \in Seq(D) /\ Len(InOrder(D)) = Cardinality(D)
      /\ Range(InOrder(D)) = D /\ IsInjective(InOrder(D))
  BY <1>2, Ranks
<1>4. SeedInv' /\ IsTable(table)'
  BY <1>1, <1>2 DEF IInv, SeedInv, IsTable, HasSection, InSection, Sections
<1>5. ListInv'
  BY <1>1, <1>3 DEF ListInv
<1>6. SearchInv'
  BY <1>1, <1>3 DEF SearchInv
<1>7. SearchedInv'
  BY <1>1 DEF IInv, SearchedInv
<1> QED
  BY <1>1, <1>4, <1>5, <1>6, <1>7 DEF IInv

LEMMA DiscoveryEnded == IInv /\ EndDiscovery => IInv'
<1> SUFFICES ASSUME IInv, EndDiscovery PROVE IInv'
  OBVIOUS
<1>1. /\ phase = "discover" /\ phase' = "sizes"
      /\ queue = <<>> \/ Cardinality(known) >= MaxDiscovered
      /\ image' = image /\ symbols' = symbols /\ pdata' = pdata
      /\ table' = table /\ functions' = functions /\ known' = known
  BY DEF EndDiscovery
<1>2. known = DOMAIN table /\ \A a \in known \ Range(queue) : Closed(a)
  BY <1>1 DEF IInv, SearchInv
<1>3. Cardinality(known) \in Nat /\ MaxDiscovered \in Nat
  BY <1>2, FS_CardinalityType, BoundAssumption DEF IInv, IsTable
<1>4. Cardinality(known) < MaxDiscovered => \A a \in known : Closed(a)
  <2>1. queue = <<>> => Range(queue) = {}
    BY DEF Range
  <2> QED
    BY <1>1, <1>2, <1>3, <2>1
<1>5. SearchedInv'
  <2>1. \A a \in known : Closed(a) => Closed(a)'
    BY <1>1 DEF Closed, CallTargets
  <2> QED
    BY <1>1, <1>2, <1>4, <2>1 DEF SearchedInv
<1>6. SeedInv' /\ IsTable(table)' /\ ListInv'
  BY <1>1 DEF IInv, SeedInv, IsTable, ListInv
<1> QED
  BY <1>1, <1>5, <1>6 DEF IInv, SearchInv

LEMMA CallsDiscovered == IInv /\ DiscoverCalls => IInv'
<1> SUFFICES ASSUME IInv, DiscoverCalls PROVE IInv'
  OBVIOUS
<1> DEFINE a == Head(queue)
           new == NewCalls(a)
           f == OfCall
<1>1. /\ phase = "discover" /\ phase' = "discover" /\ queue # <<>>
      /\ image' = image /\ symbols' = symbols /\ pdata' = pdata
      /\ known' = known \cup new
      /\ table' = [b \in DOMAIN table \cup new |-> IF b \in new THEN f ELSE table[b]]
      /\ functions' = functions \o InOrder(new)
      /\ queue' = Tail(queue) \o InOrder(new)
  BY DEF DiscoverCalls
<1>2. /\ known = DOMAIN table /\ queue \in Seq(known) /\ IsInjective(queue)
      /\ \A b \in known \ Range(queue) : Closed(b)
  BY <1>1 DEF IInv, SearchInv
<1>3. /\ a \in known /\ Tail(queue) \in Seq(known)
      /\ Range(queue) = {a} \cup Range(Tail(queue)) /\ IsInjective(Tail(queue))
  BY <1>1, <1>2, TakenFrom
<1>4. /\ IsFiniteSet(new) /\ new \in SUBSET Nat /\ new \cap known = {}
      /\ \A t \in new : t \in Nat /\ HasSection(t)
  BY <1>2, <1>3, NewCallsFacts
<1>5. /\ InOrder(new) \in Seq(new) /\ Len(InOrder(new)) = Cardinality(new)
      /\ Range(InOrder(new)) = new /\ IsInjective(InOrder(new))
  BY <1>4, Ranks
<1>6. f \in Records
  BY DEF Records, OfCall, AllNames, Generated
<1> HIDE DEF a, new, f
<1>7. DOMAIN table' = known' /\ known \subseteq known'
  BY <1>1, <1>2
<1>8. IsTable(table)'
  <2>1. IsFiniteSet(DOMAIN table')
    BY <1>1, <1>4, FS_Union DEF IInv, IsTable
  <2>2. \A b \in DOMAIN table' : b \in Nat /\ HasSection(b) /\ table'[b] \in Records
    BY <1>1, <1>4, <1>6 DEF IInv, IsTable
  <2>3. table' = [b \in DOMAIN table' |-> table'[b]]
    BY <1>1
  <2> QED
    BY <2>1, <2>2, <2>3 DEF IsTable, HasSection, InSection, Sections
<1>9. InOrder(new) \in Seq(known')
  BY <1>1, <1>5
<1>10. ListInv'
  <2>1. /\ functions \in Seq(known') /\ Range(functions) = known
        /\ Len(functions) = Cardinality(known)
    BY <1>1, <1>2, <1>7 DEF IInv, ListInv
  <2>2. /\ functions' \in Seq(known') /\ Len(functions') = Len(functions) + Len(InOrder(new))
        /\ Range(functions') = known'
    <3>1. LET s == functions \o InOrder(new)
          IN  /\ s \in Seq(known') /\ Len(s) = Len(functions) + Len(InOrder(new))
              /\ Range(s) = Range(functions) \cup Range(InOrder(new))
      BY <1>9, <2>1, AddedTo, Zenon
    <3> QED
      BY <1>1, <1>5, <2>1, <3>1
  <2>3. IsFiniteSet(known) /\ Cardinality({}) = 0 /\ Cardinality(known) \in Nat /\ Cardinality(new) \in Nat
    BY <1>2, <1>4, FS_EmptySet, FS_CardinalityType DEF IInv, IsTable
  <2>4. Cardinality(known \cup new) = Cardinality(known) + Cardinality(new) - Cardinality(known \cap new)
    BY <1>4, <2>3, FS_Union
  <2>5. known \cap new = {}
    BY <1>4
  <2>6. Cardinality(known \cap new) = 0
    BY <2>3, <2>5
  <2>7. Cardinality(known') = Cardinality(known) + Cardinality(new)
    BY <1>1, <2>3, <2>4, <2>6
  <2> QED
    BY <1>5, <1>7, <2>1, <2>2, <2>7 DEF ListInv
<1>11. /\ queue' \in Seq(known') /\ IsInjective(queue')
       /\ Range(queue') = Range(Tail(queue)) \cup new
  <2>1. Tail(queue) \in Seq(known')
    BY <1>3, <1>7
  <2>2. Range(Tail(queue)) \cap new = {}
    <3>1. Range(Tail(queue)) \subseteq known
      BY <1>3 DEF Range
    <3> QED
      BY <1>4, <3>1
  <2>3. LET s == Tail(queue) \o InOrder(new)
        IN  /\ s \in Seq(known')
            /\ Range(s) = Range(Tail(queue)) \cup Range(InOrder(new))
            /\ IsInjective(Tail(queue)) /\ IsInjective(InOrder(new))
               /\ Range(Tail(queue)) \cap Range(InOrder(new)) = {} => IsInjective(s)
    BY <1>9, <2>1, AddedTo, Zenon
  <2> QED
    BY <1>1, <1>3, <1>5, <2>2, <2>3
<1>12. ASSUME NEW b \in known' \ Range(queue') PROVE Closed(b)'
  <2>1. b \in known /\ b \notin new /\ b \notin Range(Tail(queue))
    BY <1>1, <1>11, <1>12
  <2>2. table'[b] = table[b]
    BY <1>1, <1>2, <2>1
  <2> DEFINE T == CallTargets(b, BytesOf(b, table[b].size))
  <2>3. Closed(b)' <=> \A t \in T : Executable(t) => t \in known'
    BY <1>1, <2>2 DEF Closed, CallTargets
  <2>4. CASE b = a
    <3>1. \A t \in CallTargets(a, BytesOf(a, table[a].size)) : Executable(t) => t \in known \cup new
      BY DEF new, NewCalls
    <3> QED
      BY <1>1, <2>4, <2>3, <3>1
  <2>5. CASE b # a
    <3>1. Closed(b)
      BY <1>2, <1>3, <2>1, <2>5
    <3> QED
      BY <1>7, <2>3, <3>1 DEF Closed
  <2> QED
    BY <2>4, <2>5
<1>13. SearchInv'
  BY <1>7, <1>11, <1>12 DEF SearchInv
<1>14. SeedInv'
  BY <1>1 DEF IInv, SeedInv
<1> QED
  BY <1>1, <1>8, <1>10, <1>13, <1>14 DEF IInv, SearchedInv

\* With the size that is inferred a function is printed with no more bytes than
\* discovery read.
LEMMA InferredBytes ==
  ASSUME IInv, phase = "sizes", InferSizes, NEW a \in DOMAIN table
  PROVE  /\ table'[a] \in Records
         /\ table[a].size # 0 => table'[a] = table[a]
         /\ table[a].size = 0 => table'[a].size = InferredSize(a)
         /\ table'[a].name = table[a].name /\ table'[a].origin = table[a].origin
         /\ CallTargets(a, BytesOf(a, table'[a].size)) \subseteq CallTargets(a, BytesOf(a, table[a].size))
<1>1. /\ IsTable(table) /\ a \in Nat /\ HasSection(a) /\ table[a] \in Records
      /\ table' = [b \in DOMAIN table |-> IF table[b].size # 0 THEN table[b]
                                          ELSE [table[b] EXCEPT !.size = InferredSize(b)]]
  BY DEF IInv, IsTable, InferSizes
<1>2. CASE table[a].size # 0
  <2>1. table'[a] = table[a]
    BY <1>1, <1>2
  <2> QED
    BY <1>1, <1>2, <2>1
<1>3. CASE table[a].size = 0
  <2>1. table'[a] = [table[a] EXCEPT !.size = InferredSize(a)]
    BY <1>1, <1>3
  <2>2. InferredSize(a) \in Nat \ {0} /\ InferredSize(a) <= BytesOf(a, 0)
    BY <1>1, Inferred
  <2>3. /\ table'[a] \in Records /\ table'[a].size = InferredSize(a)
        /\ table'[a].name = table[a].name /\ table'[a].origin = table[a].origin
    BY <1>1, <2>1, <2>2 DEF Records
  <2>4. BytesOf(a, 0) \in Nat /\ BytesOf(a, InferredSize(a)) \in Nat
    BY <1>1, <2>2, BytesInSection
  <2>5. BytesOf(a, InferredSize(a)) <= BytesOf(a, 0)
    <3>1. SectionEnd[SectionOf(a)] \in Nat
      BY <1>1, OneSection
    <3> QED
      BY <1>1, <2>2, <2>4, <3>1, BoundAssumption DEF BytesOf, Lesser
  <2> QED
    BY <1>1, <1>3, <2>3, <2>4, <2>5, FewerBytes
<1> QED
  BY <1>2, <1>3

LEMMA SizesInferred == IInv /\ InferSizes => IInv'
<1> SUFFICES ASSUME IInv, InferSizes PROVE IInv'
  OBVIOUS
<1> DEFINE D == DOMAIN table
           E == D \cap {image.entry}
           F == D \ {image.entry}
<1>1. /\ phase = "sizes" /\ phase' = "done" /\ image' = image /\ symbols' = symbols
      /\ pdata' = pdata /\ known' = known /\ DOMAIN table' = D
      /\ table' = [b \in D |-> table'[b]]
      /\ functions' = InOrder(E) \o InOrder(F)
  BY DEF InferSizes
<1>2. IsFiniteSet(D) /\ D \in SUBSET Nat
  BY DEF IInv, IsTable
<1>3. E \in SUBSET D /\ F \in SUBSET D /\ D = E \cup F /\ E \cap F = {}
  OBVIOUS
<1>4. IsTable(table)'
  <2>1. \A b \in D : table'[b] \in Records
    BY <1>1, InferredBytes
  <2> QED
    BY <1>1, <1>2, <2>1 DEF IInv, IsTable, HasSection, InSection, Sections
<1>5. ListInv'
  <2>1. IsFiniteSet(E) /\ IsFiniteSet(F)
    BY <1>2, <1>3, FS_Subset
  <2>2. /\ InOrder(E) \in Seq(E) /\ Len(InOrder(E)) = Cardinality(E) /\ Range(InOrder(E)) = E
        /\ InOrder(F) \in Seq(F) /\ Len(InOrder(F)) = Cardinality(F) /\ Range(InOrder(F)) = F
    BY <1>2, <2>1, Ranks
  <2> HIDE DEF E, F
  <2>3. InOrder(E) \in Seq(D) /\ InOrder(F) \in Seq(D)
    BY <1>3, <2>2
  <2>4. /\ functions' \in Seq(D) /\ Range(functions') = D
        /\ Len(functions') = Cardinality(E) + Cardinality(F)
    <3>1. LET s == InOrder(E) \o InOrder(F)
          IN  /\ s \in Seq(D) /\ Len(s) = Len(InOrder(E)) + Len(InOrder(F))
              /\ Range(s) = Range(InOrder(E)) \cup Range(InOrder(F))
      BY <2>3, AddedTo, Zenon
    <3> QED
      BY <1>1, <1>3, <2>2, <3>1
  <2>5. Cardinality(D) = Cardinality(E) + Cardinality(F) - Cardinality(E \cap F)
    BY <1>3, <2>1, FS_Union
  <2>6. Cardinality(E \cap F) = 0 /\ Cardinality(E) \in Nat /\ Cardinality(F) \in Nat
    BY <1>3, <2>1, FS_EmptySet, FS_CardinalityType
  <2> QED
    BY <1>1, <2>4, <2>5, <2>6 DEF ListInv
<1>6. SearchedInv'
  <2>1. CASE known = {}
    BY <1>1, <2>1 DEF SearchedInv
  <2>2. CASE known # {}
    <3>1. known = D /\ (Cardinality(known) < MaxDiscovered => \A a \in known : Closed(a))
      BY <1>1, <2>2 DEF IInv, SearchedInv
    <3>2. ASSUME NEW a \in D, Closed(a) PROVE Closed(a)'
      <4>1. CallTargets(a, BytesOf(a, table'[a].size)) \subseteq CallTargets(a, BytesOf(a, table[a].size))
        BY <1>1, InferredBytes
      <4>2. CallTargets(a, BytesOf(a, table[a].size))' = CallTargets(a, BytesOf(a, table'[a].size))
        BY <1>1 DEF CallTargets
      <4> QED
        BY <1>1, <3>2, <4>1, <4>2 DEF Closed
    <3> QED
      BY <1>1, <3>1, <3>2 DEF SearchedInv
  <2> QED
    BY <2>1, <2>2
<1>7. SeedInv'
  BY <1>1 DEF IInv, SeedInv
<1> QED
  BY <1>1, <1>4, <1>5, <1>6, <1>7 DEF IInv, SearchInv

LEMMA Stuttering == IInv /\ UNCHANGED vars => IInv'
BY DEF vars, IInv, SeedInv, IsTable, ListInv, SearchInv, SearchedInv, Closed,
       CallTargets, HasSection, InSection, Sections

-----------------------------------------------------------------------------
\* collect_functions keeps the invariant of its search.
THEOREM Inductive == Spec => []IInv
<1>1. IInv /\ [Next]_vars => IInv'
  BY SymbolAdded, PdataAdded, EntryAdded, DiscoveryEnded, CallsDiscovered, SizesInferred, Stuttering
     DEF Next
<1> QED
  BY Initial, <1>1, PTL DEF Spec

\* The table and the lists are well typed, and name each function once, for every
\* image and limit (collect_functions).
THEOREM TypeCorrect == Spec => []TypeOK
<1>1. IInv => TypeOK
  <2> SUFFICES ASSUME IInv PROVE TypeOK
    OBVIOUS
  <2>1. \A a \in DOMAIN table : table[a] \in Records /\ HasSection(a)
    BY DEF IInv, IsTable
  <2>2. phase = "discover" => known = DOMAIN table /\ IsInjective(queue) /\ Range(queue) \subseteq known
    <3>1. phase = "discover" => queue \in Seq(known)
      BY DEF IInv, SearchInv
    <3> QED
      BY <3>1 DEF IInv, SearchInv, Range
  <2> QED
    BY <2>1, <2>2 DEF IInv, TypeOK, Records, ListInv
<1> QED
  BY Inductive, <1>1, PTL

-----------------------------------------------------------------------------
(***************************************************************************)
(* Disassembly.  The code that n instructions make is the beginning of the *)
(* code that more of them make, so an instruction stands in the whole as   *)
(* it was assembled; and from its first cell the listing finds its length. *)
(***************************************************************************)
OpKinds == {"plain", "payload", "tableswitch", "lookupswitch", "wide", "il", "prefix", "switch"}
Cells == [byte : Nat, number : Nat]
Instructions ==
  {i \in [kind : OpKinds, op : Nat, n : Nat] :
     /\ i.kind \in {"plain", "payload"} => i.n > 0
     /\ i.kind = "wide" => i.n \in {4, 6} /\ (i.op = 132 <=> i.n = 6)}

PaddingAt(pc) == (3 - pc) % 4

\* How long the assembler makes an instruction.
LengthOf(i, pc) ==
  CASE i.kind \in {"plain", "payload"} -> i.n
    [] i.kind = "tableswitch"  -> 13 + PaddingAt(pc) + 4 * i.n
    [] i.kind = "lookupswitch" -> 9 + PaddingAt(pc) + 8 * i.n
    [] i.kind = "wide"         -> i.n
    [] i.kind = "il"           -> 1 + i.n
    [] i.kind = "prefix"       -> 2 + i.n
    [] i.kind = "switch"       -> 5 + 4 * i.n

\* The cells that tell its length.
FirstByte(i) == IF i.kind = "wide" THEN 196 ELSE IF i.kind = "prefix" THEN 254 ELSE i.op

Telling(c, i, pc) ==
  /\ c[1].byte = FirstByte(i)
  /\ i.kind = "tableswitch"  => c[PaddingAt(pc) + 6].number = 5 /\ c[PaddingAt(pc) + 10].number = 4 + i.n
  /\ i.kind = "lookupswitch" => c[PaddingAt(pc) + 6].number = i.n
  /\ i.kind \in {"wide", "prefix"} => c[2].byte = i.op
  /\ i.kind = "switch"       => c[2].number = i.n

LEMMA PaddingBounds ==
  ASSUME NEW pc \in Nat
  PROVE  PaddingAt(pc) \in 0 .. 3 /\ Listing!Padding(pc) = PaddingAt(pc)
BY DEF PaddingAt, Listing!Padding

LEMMA CellIs ==
  ASSUME NEW byte \in Nat, NEW number \in Nat
  PROVE  /\ <<Listing!Cell(byte, number)>> \in Seq(Cells)
         /\ Len(<<Listing!Cell(byte, number)>>) = 1
         /\ <<Listing!Cell(byte, number)>>[1].byte = byte
         /\ <<Listing!Cell(byte, number)>>[1].number = number
BY DEF Listing!Cell, Cells

LEMMA DataIs ==
  ASSUME NEW n \in Nat
  PROVE  Listing!Data(n) \in Seq(Cells) /\ Len(Listing!Data(n)) = n
<1> DEFINE c == Listing!Cell(0, 0)
<1>1. c \in Cells
  BY DEF Listing!Cell, Cells
<1>2. Listing!Data(n) = [i \in 1 .. n |-> c]
  BY DEF Listing!Data
<1> HIDE DEF c
<1>3. [i \in 1 .. n |-> c] \in [1 .. n -> Cells]
  BY <1>1
<1> QED
  BY <1>2, <1>3

\* What stands in a sequence that is put together.
Joins(c, s, t) ==
  /\ c \in Seq(Cells) /\ Len(c) = Len(s) + Len(t)
  /\ \A i \in 1 .. Len(s) : c[i] = s[i]
  /\ \A i \in 1 .. Len(t) : c[Len(s) + i] = t[i]

LEMMA Joined ==
  ASSUME NEW s \in Seq(Cells), NEW t \in Seq(Cells), NEW c, c = s \o t
  PROVE  Joins(c, s, t)
<1>1. Len(s) \in Nat /\ Len(t) \in Nat
  OBVIOUS
<1>2. /\ c \in Seq(Cells) /\ Len(c) = Len(s) + Len(t)
      /\ \A i \in 1 .. Len(s) + Len(t) : c[i] = IF i <= Len(s) THEN s[i] ELSE t[i - Len(s)]
  BY ConcatProperties
<1>3. ASSUME NEW i \in 1 .. Len(s) PROVE c[i] = s[i]
  BY <1>1, <1>2
<1>4. ASSUME NEW i \in 1 .. Len(t) PROVE c[Len(s) + i] = t[i]
  <2>1. Len(s) + i \in 1 .. Len(s) + Len(t) /\ ~(Len(s) + i <= Len(s)) /\ (Len(s) + i) - Len(s) = i
    BY <1>1
  <2> QED
    BY <1>2, <2>1
<1> QED
  BY <1>2, <1>3, <1>4 DEF Joins

LEMMA WordIs ==
  ASSUME NEW v \in Nat
  PROVE  /\ Listing!Word(v) \in Seq(Cells) /\ Len(Listing!Word(v)) = 4
         /\ Listing!Word(v)[1].number = v
<1> DEFINE c == <<Listing!Cell(0, v)>>
           d == Listing!Data(3)
<1>1. c \in Seq(Cells) /\ Len(c) = 1 /\ c[1].number = v
  BY CellIs
<1>2. d \in Seq(Cells) /\ Len(d) = 3
  BY DataIs
<1>3. Listing!Word(v) = c \o d
  BY DEF Listing!Word
<1> HIDE DEF c, d
<1>4. Joins(Listing!Word(v), c, d)
  BY <1>1, <1>2, <1>3, Joined
<1> QED
  BY <1>1, <1>2, <1>4 DEF Joins

LEMMA AssembledIs ==
  ASSUME NEW i \in Instructions, NEW pc \in Nat
  PROVE  /\ Listing!Assembled(i, pc) \in Seq(Cells)
         /\ Len(Listing!Assembled(i, pc)) = LengthOf(i, pc)
         /\ LengthOf(i, pc) \in Nat \ {0}
         /\ Telling(Listing!Assembled(i, pc), i, pc)
<1> DEFINE c == Listing!Assembled(i, pc)
           pad == PaddingAt(pc)
           align == Listing!Align(pc)
<1>1. i.n \in Nat /\ i.op \in Nat /\ i.kind \in OpKinds /\ pad \in 0 .. 3
  BY PaddingBounds DEF Instructions
<1>2. align \in Seq(Cells) /\ Len(align) = pad
  BY <1>1, DataIs DEF Listing!Align, PaddingAt
<1>3. CASE i.kind \in {"plain", "payload"}
  <2> DEFINE s == <<Listing!Cell(i.op, 0)>>  t == Listing!Data(i.n - 1)
  <2>1. i.n - 1 \in Nat /\ i.n > 0
    BY <1>1, <1>3 DEF Instructions
  <2>2. s \in Seq(Cells) /\ Len(s) = 1 /\ s[1].byte = i.op
    BY <1>1, CellIs
  <2>3. t \in Seq(Cells) /\ Len(t) = i.n - 1
    BY <2>1, DataIs
  <2>4. c = s \o t
    BY <1>3 DEF Listing!Assembled
  <2> HIDE DEF s, t, c
  <2>5. c \in Seq(Cells) /\ Len(c) = i.n /\ c[1] = s[1]
    <3>1. Joins(c, s, t)
      BY <2>1, <2>2, <2>3, <2>4, Joined
    <3>2. c[1] = s[1]
      BY <2>2, <3>1 DEF Joins
    <3>3. c \in Seq(Cells) /\ Len(c) = i.n
      BY <1>1, <2>2, <2>3, <3>1 DEF Joins
    <3> QED
      BY <3>2, <3>3
  <2> QED
    BY <1>3, <2>1, <2>2, <2>5 DEF LengthOf, Telling, FirstByte, c
<1>4. CASE i.kind = "tableswitch"
  <2> DEFINE s == <<Listing!Cell(i.op, 0)>>
             w == Listing!Word(0)  low == Listing!Word(5)  high == Listing!Word(4 + i.n)
             t == Listing!Data(4 * i.n)
             c1 == s \o align  c2 == c1 \o w  c3 == c2 \o low  c4 == c3 \o high
  <2>1. s \in Seq(Cells) /\ Len(s) = 1 /\ s[1].byte = i.op
    BY <1>1, CellIs
  <2>2. w \in Seq(Cells) /\ Len(w) = 4
    BY WordIs
  <2>3. low \in Seq(Cells) /\ Len(low) = 4 /\ low[1].number = 5
    BY WordIs
  <2>4. high \in Seq(Cells) /\ Len(high) = 4 /\ high[1].number = 4 + i.n
    BY <1>1, WordIs
  <2>5. t \in Seq(Cells) /\ Len(t) = 4 * i.n
    BY <1>1, DataIs
  <2>6. c = c4 \o t
    BY <1>4 DEF Listing!Assembled
  <2> HIDE DEF s, w, low, high, t, c, align
  <2>7. c1 \in Seq(Cells) /\ Len(c1) = 1 + pad /\ c1[1] = s[1]
    <3>1. Joins(c1, s, align)
      BY <1>1, <1>2, <2>1, Joined
    <3> QED
      BY <1>1, <1>2, <2>1, <3>1 DEF Joins
  <2> HIDE DEF c1
  <2>8. c2 \in Seq(Cells) /\ Len(c2) = 5 + pad /\ c2[1] = s[1]
    <3>1. Joins(c2, c1, w)
      BY <1>1, <2>2, <2>7, Joined
    <3> QED
      BY <1>1, <2>2, <2>7, <3>1 DEF Joins
  <2> HIDE DEF c2
  <2>9. c3 \in Seq(Cells) /\ Len(c3) = 9 + pad /\ c3[1] = s[1] /\ c3[pad + 6] = low[1]
    <3>1. Len(c2) + 1 = pad + 6 /\ 1 \in 1 .. Len(low) /\ 1 \in 1 .. Len(c2)
      BY <1>1, <2>3, <2>8
    <3>2. Joins(c3, c2, low)
      BY <1>1, <2>3, <2>8, Joined
    <3>3. c3[Len(c2) + 1] = low[1] /\ c3[1] = c2[1]
      BY <3>1, <3>2 DEF Joins
    <3>4. c3 \in Seq(Cells) /\ Len(c3) = 9 + pad
      BY <1>1, <2>3, <2>8, <3>2 DEF Joins
    <3> QED
      BY <2>8, <3>1, <3>3, <3>4
  <2> HIDE DEF c3
  <2>10. /\ c4 \in Seq(Cells) /\ Len(c4) = 13 + pad /\ c4[1] = s[1] /\ c4[pad + 6] = low[1]
         /\ c4[pad + 10] = high[1]
    <3>1. Len(c3) + 1 = pad + 10 /\ 1 \in 1 .. Len(high) /\ 1 \in 1 .. Len(c3) /\ pad + 6 \in 1 .. Len(c3)
      BY <1>1, <2>4, <2>9
    <3>2. Joins(c4, c3, high)
      BY <1>1, <2>4, <2>9, Joined
    <3>3. c4[Len(c3) + 1] = high[1] /\ c4[1] = c3[1] /\ c4[pad + 6] = c3[pad + 6]
      BY <3>1, <3>2 DEF Joins
    <3>4. c4 \in Seq(Cells) /\ Len(c4) = 13 + pad
      BY <1>1, <2>4, <2>9, <3>2 DEF Joins
    <3> QED
      BY <2>9, <3>1, <3>3, <3>4
  <2> HIDE DEF c4
  <2>11. /\ c \in Seq(Cells) /\ Len(c) = 13 + pad + 4 * i.n /\ c[1] = s[1] /\ c[pad + 6] = low[1]
         /\ c[pad + 10] = high[1]
    <3>1. 1 \in 1 .. Len(c4) /\ pad + 6 \in 1 .. Len(c4) /\ pad + 10 \in 1 .. Len(c4)
      BY <1>1, <2>10
    <3>2. Joins(c, c4, t)
      BY <1>1, <2>5, <2>6, <2>10, Joined
    <3> QED
      BY <1>1, <2>5, <2>6, <2>10, <3>1, <3>2 DEF Joins
  <2>12. 13 + pad + 4 * i.n \in Nat \ {0}
    BY <1>1
  <2> QED
    BY <1>4, <2>1, <2>3, <2>4, <2>11, <2>12 DEF LengthOf, Telling, FirstByte, c
<1>5. CASE i.kind = "lookupswitch"
  <2> DEFINE s == <<Listing!Cell(i.op, 0)>>
             w == Listing!Word(0)  count == Listing!Word(i.n)
             t == Listing!Data(8 * i.n)
             c1 == s \o align  c2 == c1 \o w  c3 == c2 \o count
  <2>1. s \in Seq(Cells) /\ Len(s) = 1 /\ s[1].byte = i.op
    BY <1>1, CellIs
  <2>2. w \in Seq(Cells) /\ Len(w) = 4
    BY WordIs
  <2>3. count \in Seq(Cells) /\ Len(count) = 4 /\ count[1].number = i.n
    BY <1>1, WordIs
  <2>4. t \in Seq(Cells) /\ Len(t) = 8 * i.n
    BY <1>1, DataIs
  <2>5. c = c3 \o t
    BY <1>5 DEF Listing!Assembled
  <2> HIDE DEF s, w, count, t, c, align
  <2>6. c1 \in Seq(Cells) /\ Len(c1) = 1 + pad /\ c1[1] = s[1]
    <3>1. Joins(c1, s, align)
      BY <1>1, <1>2, <2>1, Joined
    <3> QED
      BY <1>1, <1>2, <2>1, <3>1 DEF Joins
  <2> HIDE DEF c1
  <2>7. c2 \in Seq(Cells) /\ Len(c2) = 5 + pad /\ c2[1] = s[1]
    <3>1. Joins(c2, c1, w)
      BY <1>1, <2>2, <2>6, Joined
    <3> QED
      BY <1>1, <2>2, <2>6, <3>1 DEF Joins
  <2> HIDE DEF c2
  <2>8. c3 \in Seq(Cells) /\ Len(c3) = 9 + pad /\ c3[1] = s[1] /\ c3[pad + 6] = count[1]
    <3>1. Len(c2) + 1 = pad + 6 /\ 1 \in 1 .. Len(count) /\ 1 \in 1 .. Len(c2)
      BY <1>1, <2>3, <2>7
    <3>2. Joins(c3, c2, count)
      BY <1>1, <2>3, <2>7, Joined
    <3>3. c3[Len(c2) + 1] = count[1] /\ c3[1] = c2[1]
      BY <3>1, <3>2 DEF Joins
    <3>4. c3 \in Seq(Cells) /\ Len(c3) = 9 + pad
      BY <1>1, <2>3, <2>7, <3>2 DEF Joins
    <3> QED
      BY <2>7, <3>1, <3>3, <3>4
  <2> HIDE DEF c3
  <2>9. c \in Seq(Cells) /\ Len(c) = 9 + pad + 8 * i.n /\ c[1] = s[1] /\ c[pad + 6] = count[1]
    <3>1. 1 \in 1 .. Len(c3) /\ pad + 6 \in 1 .. Len(c3)
      BY <1>1, <2>8
    <3>2. Joins(c, c3, t)
      BY <1>1, <2>4, <2>5, <2>8, Joined
    <3> QED
      BY <1>1, <2>4, <2>5, <2>8, <3>1, <3>2 DEF Joins
  <2>10. 9 + pad + 8 * i.n \in Nat \ {0}
    BY <1>1
  <2> QED
    BY <1>5, <2>1, <2>3, <2>9, <2>10 DEF LengthOf, Telling, FirstByte, c
<1>6. CASE i.kind = "wide"
  <2> DEFINE second == Listing!Cell(i.op, 0)
             first == Listing!Cell(196, 0)
             s == <<first, second>>  t == Listing!Data(i.n - 2)
  <2>1. i.n - 2 \in Nat /\ i.n \in {4, 6}
    BY <1>1, <1>6 DEF Instructions
  <2>2. first \in Cells /\ first.byte = 196 /\ second \in Cells /\ second.byte = i.op
    BY <1>1 DEF Listing!Cell, Cells
  <2>3. t \in Seq(Cells) /\ Len(t) = i.n - 2
    BY <2>1, DataIs
  <2>4. c = s \o t
    BY <1>6 DEF Listing!Assembled
  <2> HIDE DEF first, second
  <2>5. s \in Seq(Cells) /\ Len(s) = 2 /\ s[1] = first /\ s[2] = second
    BY <2>2
  <2> HIDE DEF s, t, c
  <2>6. c \in Seq(Cells) /\ Len(c) = i.n /\ c[1] = s[1] /\ c[2] = s[2]
    <3>1. Joins(c, s, t)
      BY <2>1, <2>3, <2>4, <2>5, Joined
    <3> QED
      BY <2>1, <2>3, <2>4, <2>5, <3>1 DEF Joins
  <2> QED
    BY <1>6, <2>1, <2>2, <2>5, <2>6 DEF LengthOf, Telling, FirstByte, c
<1>7. CASE i.kind = "il"
  <2> DEFINE s == <<Listing!Cell(i.op, 0)>>  t == Listing!Data(i.n)
  <2>1. s \in Seq(Cells) /\ Len(s) = 1 /\ s[1].byte = i.op
    BY <1>1, CellIs
  <2>2. t \in Seq(Cells) /\ Len(t) = i.n
    BY <1>1, DataIs
  <2>3. c = s \o t
    BY <1>7 DEF Listing!Assembled
  <2> HIDE DEF s, t, c
  <2>4. c \in Seq(Cells) /\ Len(c) = 1 + i.n /\ c[1] = s[1]
    <3>1. Joins(c, s, t)
      BY <1>1, <2>1, <2>2, <2>3, Joined
    <3> QED
      BY <1>1, <2>1, <2>2, <2>3, <3>1 DEF Joins
  <2> QED
    BY <1>1, <1>7, <2>1, <2>4 DEF LengthOf, Telling, FirstByte, c
<1>8. CASE i.kind = "prefix"
  <2> DEFINE first == Listing!Cell(254, 0)
             second == Listing!Cell(i.op, 0)
             s == <<first, second>>  t == Listing!Data(i.n)
  <2>1. first \in Cells /\ first.byte = 254 /\ second \in Cells /\ second.byte = i.op
    BY <1>1 DEF Listing!Cell, Cells
  <2>2. t \in Seq(Cells) /\ Len(t) = i.n
    BY <1>1, DataIs
  <2>3. c = s \o t
    BY <1>8 DEF Listing!Assembled
  <2> HIDE DEF first, second
  <2>4. s \in Seq(Cells) /\ Len(s) = 2 /\ s[1] = first /\ s[2] = second
    BY <2>1
  <2> HIDE DEF s, t, c
  <2>5. c \in Seq(Cells) /\ Len(c) = 2 + i.n /\ c[1] = s[1] /\ c[2] = s[2]
    <3>1. Joins(c, s, t)
      BY <1>1, <2>2, <2>3, <2>4, Joined
    <3> QED
      BY <1>1, <2>2, <2>3, <2>4, <3>1 DEF Joins
  <2> QED
    BY <1>1, <1>8, <2>1, <2>4, <2>5 DEF LengthOf, Telling, FirstByte, c
<1>9. CASE i.kind = "switch"
  <2> DEFINE s == <<Listing!Cell(i.op, 0)>>
             count == Listing!Word(i.n)  t == Listing!Data(4 * i.n)
             c1 == s \o count
  <2>1. s \in Seq(Cells) /\ Len(s) = 1 /\ s[1].byte = i.op
    BY <1>1, CellIs
  <2>2. count \in Seq(Cells) /\ Len(count) = 4 /\ count[1].number = i.n
    BY <1>1, WordIs
  <2>3. t \in Seq(Cells) /\ Len(t) = 4 * i.n
    BY <1>1, DataIs
  <2>4. c = c1 \o t
    BY <1>9 DEF Listing!Assembled
  <2> HIDE DEF s, count, t, c
  <2>5. c1 \in Seq(Cells) /\ Len(c1) = 5 /\ c1[1] = s[1] /\ c1[2] = count[1]
    <3>1. Len(s) + 1 = 2 /\ 1 \in 1 .. Len(count) /\ 1 \in 1 .. Len(s)
      BY <2>1, <2>2
    <3>2. Joins(c1, s, count)
      BY <2>1, <2>2, Joined
    <3> QED
      BY <2>1, <2>2, <3>1, <3>2 DEF Joins
  <2> HIDE DEF c1
  <2>6. c \in Seq(Cells) /\ Len(c) = 5 + 4 * i.n /\ c[1] = s[1] /\ c[2] = count[1]
    <3>1. 1 \in 1 .. Len(c1) /\ 2 \in 1 .. Len(c1)
      BY <2>5
    <3>2. Joins(c, c1, t)
      BY <1>1, <2>3, <2>4, <2>5, Joined
    <3> QED
      BY <1>1, <2>3, <2>4, <2>5, <3>1, <3>2 DEF Joins
  <2>7. 5 + 4 * i.n \in Nat \ {0}
    BY <1>1
  <2> QED
    BY <1>9, <2>1, <2>2, <2>6, <2>7 DEF LengthOf, Telling, FirstByte, c
<1> QED
  BY <1>1, <1>3, <1>4, <1>5, <1>6, <1>7, <1>8, <1>9 DEF OpKinds

LEMMA LaidOut ==
  ASSUME NEW body \in Seq(Instructions)
  PROVE  /\ Listing!Laid(body) \in [0 .. Len(body) -> Seq(Cells)]
         /\ Listing!Laid(body)[0] = <<>>
         /\ \A n \in 1 .. Len(body) :
              Joins(Listing!Laid(body)[n], Listing!Laid(body)[n - 1],
                    Listing!Assembled(body[n], Len(Listing!Laid(body)[n - 1])))
<1> DEFINE N == Len(body)
           After(n, before) == before \o Listing!Assembled(body[n], Len(before))
           F(code) == [n \in 0 .. N |-> IF n = 0 THEN <<>> ELSE After(n, code[n - 1])]
           step == [p \in Nat \X Seq(Cells) |-> IF p[1] \in 1 .. N THEN After(p[1], p[2]) ELSE p[2]]
           laid == Listing!Laid(body)
<1>1. N \in Nat /\ \A n \in 1 .. N : body[n] \in Instructions
  OBVIOUS
<1>2. ASSUME NEW n \in 1 .. N, NEW before \in Seq(Cells)
      PROVE  /\ Listing!Assembled(body[n], Len(before)) \in Seq(Cells)
             /\ Joins(After(n, before), before, Listing!Assembled(body[n], Len(before)))
             /\ After(n, before) \in Seq(Cells)
  <2>1. Len(before) \in Nat /\ body[n] \in Instructions
    BY <1>1
  <2>2. Listing!Assembled(body[n], Len(before)) \in Seq(Cells)
    BY <2>1, AssembledIs
  <2>3. Joins(After(n, before), before, Listing!Assembled(body[n], Len(before)))
    BY <2>2, Joined
  <2> QED
    BY <2>2, <2>3 DEF Joins
<1> HIDE DEF After
<1>3. step \in [Nat \X Seq(Cells) -> Seq(Cells)]
  <2>1. ASSUME NEW p \in Nat \X Seq(Cells)
        PROVE  (IF p[1] \in 1 .. N THEN After(p[1], p[2]) ELSE p[2]) \in Seq(Cells)
    BY <1>2
  <2> QED
    BY <2>1
<1>4. <<>> \in Seq(Cells)
  OBVIOUS
<1> HIDE DEF step
<1>5. PICK f \in [0 .. N -> Seq(Cells)] : f[0] = <<>> /\ \A n \in 1 .. N : f[n] = step[<<n, f[n - 1]>>]
  <2>1. \E f : IsRun(f, Seq(Cells), <<>>, step, N)
    BY <1>1, <1>3, <1>4, Iterated
  <2> QED
    BY <2>1 DEF IsRun
<1>6. ASSUME NEW n \in 1 .. N
      PROVE  n - 1 \in 0 .. N /\ n \in 0 .. N /\ f[n - 1] \in Seq(Cells) /\ f[n] = After(n, f[n - 1])
  <2>1. n - 1 \in 0 .. N /\ n \in Nat
    BY <1>1
  <2>2. f[n - 1] \in Seq(Cells) /\ <<n, f[n - 1]>> \in Nat \X Seq(Cells)
    BY <2>1
  <2>3. step[<<n, f[n - 1]>>] = After(n, f[n - 1])
    BY <2>2 DEF step
  <2> QED
    BY <1>5, <2>1, <2>2, <2>3
<1>7. f = F(f)
  <2>1. ASSUME NEW n \in 0 .. N
        PROVE  f[n] = IF n = 0 THEN <<>> ELSE After(n, f[n - 1])
    <3>1. CASE n = 0
      BY <1>5, <3>1
    <3>2. CASE n # 0
      <4>1. n \in 1 .. N
        BY <1>1, <3>2
      <4> QED
        BY <1>6, <3>2, <4>1
    <3> QED
      BY <3>1, <3>2
  <2> QED
    BY <2>1
<1>8. laid = CHOOSE code : code = F(code)
  BY DEF Listing!Laid, After
<1>9. laid = F(laid)
  <2> HIDE DEF F, laid
  <2> QED
    BY <1>7, <1>8
<1> HIDE DEF laid
<1>10. laid[0] = <<>> /\ \A n \in 1 .. N : laid[n] = After(n, laid[n - 1])
  <2>1. 0 \in 0 .. N /\ \A n \in 1 .. N : n \in 0 .. N /\ n # 0
    BY <1>1
  <2>2. \A n \in 0 .. N : laid[n] = IF n = 0 THEN <<>> ELSE After(n, laid[n - 1])
    BY <1>9
  <2> QED
    BY <2>1, <2>2
<1>11. \A n \in Nat : n \in {k \in Nat : k \in 0 .. N => laid[k] \in Seq(Cells)}
  <2> DEFINE S == {k \in Nat : k \in 0 .. N => laid[k] \in Seq(Cells)}
  <2>1. S \in SUBSET Nat /\ 0 \in S
    BY <1>4, <1>10
  <2>2. ASSUME NEW k \in S PROVE k + 1 \in S
    <3>1. CASE k + 1 \in 0 .. N
      <4>1. k + 1 \in 1 .. N /\ k \in 0 .. N /\ (k + 1) - 1 = k
        BY <1>1, <3>1
      <4>2. laid[k] \in Seq(Cells)
        BY <4>1
      <4>3. laid[k + 1] = After(k + 1, laid[k])
        BY <1>10, <4>1
      <4>4. laid[k + 1] \in Seq(Cells)
        BY <1>2, <4>1, <4>2, <4>3
      <4> QED
        BY <4>4
    <3> QED
      BY <3>1
  <2> HIDE DEF S
  <2>3. \A n \in Nat : n \in S
    BY <2>1, <2>2, Induction
  <2> QED
    BY <2>3 DEF S
<1>12. \A n \in 0 .. N : laid[n] \in Seq(Cells)
  BY <1>1, <1>11
<1>13. laid \in [0 .. N -> Seq(Cells)]
  BY <1>9, <1>12
<1>14. ASSUME NEW n \in 1 .. N
       PROVE  Joins(laid[n], laid[n - 1], Listing!Assembled(body[n], Len(laid[n - 1])))
  <2>1. n - 1 \in 0 .. N
    BY <1>1
  <2>2. laid[n - 1] \in Seq(Cells)
    BY <1>12, <2>1
  <2> QED
    BY <1>2, <1>10, <2>2
<1> QED
  BY <1>10, <1>13, <1>14 DEF laid

\* The code of the first instructions is where the whole code begins.
LEMMA LaidFirst ==
  ASSUME NEW body \in Seq(Instructions), NEW n \in 0 .. Len(body)
  PROVE  LET laid == Listing!Laid(body)  code == Listing!Code(body)
         IN  /\ Len(laid[n]) \in Nat /\ Len(code) \in Nat
             /\ Len(laid[n]) + (Len(body) - n) <= Len(code)
             /\ \A j \in 1 .. Len(laid[n]) : code[j] = laid[n][j]
<1> DEFINE N == Len(body)
           laid == Listing!Laid(body)
           Begins(k) == /\ Len(laid[n]) + (k - n) <= Len(laid[k])
                        /\ \A j \in 1 .. Len(laid[n]) : laid[k][j] = laid[n][j]
           S == {k \in Nat : k \in n .. N => Begins(k)}
<1>1. N \in Nat
  OBVIOUS
<1>2. /\ \A k \in 0 .. N : laid[k] \in Seq(Cells) /\ Len(laid[k]) \in Nat
      /\ \A k \in 1 .. N : Joins(laid[k], laid[k - 1], Listing!Assembled(body[k], Len(laid[k - 1])))
  <2>1. /\ laid \in [0 .. N -> Seq(Cells)]
        /\ \A k \in 1 .. N : Joins(laid[k], laid[k - 1], Listing!Assembled(body[k], Len(laid[k - 1])))
    BY LaidOut
  <2> HIDE DEF laid
  <2>2. \A k \in 0 .. N : laid[k] \in Seq(Cells)
    BY <2>1
  <2>3. \A k \in 0 .. N : Len(laid[k]) \in Nat
    BY <2>2
  <2> QED
    BY <2>1, <2>2, <2>3
<1>3. ASSUME NEW k \in 1 .. N
      PROVE  Len(Listing!Assembled(body[k], Len(laid[k - 1]))) \in Nat \ {0}
  <2>1. k - 1 \in 0 .. N /\ body[k] \in Instructions
    BY <1>1
  <2>2. Len(laid[k - 1]) \in Nat
    BY <1>2, <2>1
  <2> QED
    BY <2>1, <2>2, AssembledIs
<1> HIDE DEF laid
<1>4. ASSUME NEW k \in n .. N, Begins(k), k + 1 \in n .. N
      PROVE  Begins(k + 1)
  <2>1. k + 1 \in 1 .. N /\ (k + 1) - 1 = k /\ k \in 0 .. N /\ n \in 0 .. N
    BY <1>1, <1>4
  <2> DEFINE a == Listing!Assembled(body[k + 1], Len(laid[k]))
  <2>2. Joins(laid[k + 1], laid[k], a) /\ Len(a) \in Nat \ {0}
    BY <1>2, <1>3, <2>1
  <2> HIDE DEF a
  <2>3. Len(laid[k]) \in Nat /\ Len(laid[n]) \in Nat /\ Len(laid[n]) <= Len(laid[k])
    BY <1>2, <1>4, <2>1
  <2>4. Len(laid[n]) + ((k + 1) - n) <= Len(laid[k + 1])
    <3>1. Len(laid[k + 1]) = Len(laid[k]) + Len(a)
      BY <2>2 DEF Joins
    <3>2. Len(laid[n]) + (k - n) <= Len(laid[k]) /\ k \in Int /\ n \in Int
      BY <1>1, <1>4
    <3>3. \A x, y, z \in Nat : x + (k - n) <= y /\ z # 0 => x + ((k + 1) - n) <= y + z
      BY <3>2
    <3> QED
      BY <2>2, <2>3, <3>1, <3>2, <3>3
  <2>5. ASSUME NEW j \in 1 .. Len(laid[n]) PROVE laid[k + 1][j] = laid[n][j]
    <3>1. j \in 1 .. Len(laid[k])
      BY <2>3
    <3> QED
      BY <1>4, <2>2, <3>1 DEF Joins
  <2> QED
    BY <2>4, <2>5
<1>5. Begins(n)
  BY <1>1, <1>2
<1>6. S \in SUBSET Nat /\ 0 \in S
  BY <1>5
<1>7. ASSUME NEW k \in S PROVE k + 1 \in S
  <2>1. k \in Nat /\ (k \in n .. N => Begins(k))
    OBVIOUS
  <2>2. k + 1 \in Nat
    BY <2>1
  <2>3. ASSUME k + 1 \in n .. N PROVE Begins(k + 1)
    <3>1. k + 1 = n \/ k \in n .. N
      BY <1>1, <2>1, <2>3
    <3> HIDE DEF Begins
    <3> QED
      BY <1>4, <1>5, <2>1, <2>3, <3>1
  <2> HIDE DEF Begins
  <2> QED
    BY <2>2, <2>3
<1>8. \A k \in Nat : k \in S
  <2> HIDE DEF S
  <2> QED
    BY <1>6, <1>7, Induction
<1>9. Begins(N)
  BY <1>1, <1>8
<1> QED
  BY <1>1, <1>2, <1>9 DEF Listing!Code, laid

\* Each instruction stands in the whole code as it was assembled.
LEMMA InstructionStands ==
  ASSUME NEW body \in Seq(Instructions), NEW k \in 1 .. Len(body)
  PROVE  LET p == Len(Listing!Laid(body)[k - 1])  code == Listing!Code(body)
         IN  /\ p \in Nat
             /\ Len(Listing!Laid(body)[k]) = p + LengthOf(body[k], p)
             /\ p + LengthOf(body[k], p) <= Len(code)
             /\ \A j \in 1 .. LengthOf(body[k], p) : code[p + j] = Listing!Assembled(body[k], p)[j]
<1> DEFINE p == Len(Listing!Laid(body)[k - 1])
           laid == Listing!Laid(body)
           code == Listing!Code(body)
           a == Listing!Assembled(body[k], p)
<1>1. k \in 0 .. Len(body) /\ k - 1 \in 0 .. Len(body) /\ body[k] \in Instructions /\ Len(body) \in Nat
  OBVIOUS
<1>2. p \in Nat /\ Joins(laid[k], laid[k - 1], a)
  BY <1>1, LaidOut
<1>3. Len(a) = LengthOf(body[k], p) /\ Len(a) \in Nat
  BY <1>1, <1>2, AssembledIs
<1>4. /\ Len(laid[k]) \in Nat /\ Len(code) \in Nat
      /\ Len(laid[k]) <= Len(code)
      /\ \A j \in 1 .. Len(laid[k]) : code[j] = laid[k][j]
  <2>1. /\ Len(laid[k]) \in Nat /\ Len(code) \in Nat
        /\ Len(laid[k]) + (Len(body) - k) <= Len(code)
        /\ \A j \in 1 .. Len(laid[k]) : code[j] = laid[k][j]
    BY <1>1, LaidFirst
  <2>2. k \in Int /\ Len(body) - k \in Nat
    BY <1>1
  <2> HIDE DEF laid, code
  <2>3. Len(laid[k]) <= Len(code)
    BY <2>1, <2>2
  <2> QED
    BY <2>1, <2>3
<1>5. Len(laid[k]) = p + Len(a)
  BY <1>2 DEF Joins
<1>6. ASSUME NEW j \in 1 .. Len(a) PROVE code[p + j] = a[j]
  <2>1. laid[k][p + j] = a[j]
    BY <1>2 DEF Joins
  <2>2. p + j \in 1 .. Len(laid[k])
    BY <1>2, <1>3, <1>5
  <2> QED
    BY <1>4, <2>1, <2>2
<1> QED
  BY <1>2, <1>3, <1>4, <1>5, <1>6

-----------------------------------------------------------------------------
\* The input is a body of Bodies as it is assembled and cut.
ListingInput ==
  \E b \in Bodies :
    LET whole == Listing!Code(b.body)
    IN  input = [machine |-> b.machine, body |-> b.body, cut |-> b.cut,
                 code |-> SubSeq(whole, 1, Listing!AtLeast(Len(whole) - b.cut, 0))]

\* As long as nothing was misread, what is printed are the first addresses, and pc is
\* where the next instruction begins, or at the end of the code that is left.
ListingInv ==
  /\ ListingInput
  /\ \E S : out \in Seq(S)
  /\ \A k \in 1 .. Len(out) :
       Listing!InStep(k) => k <= Len(input.body) /\ out[k] = Len(Listing!Laid(input.body)[k - 1])
  /\ status = "reading" /\ Listing!InStep(Len(out) + 1) =>
       /\ Len(out) <= Len(input.body)
       /\ pos = Listing!Clipped(Len(Listing!Laid(input.body)[Len(out)]))
  /\ status = "done" /\ input.cut = 0 =>
       \A k \in 1 .. Len(input.body) : Listing!InStep(k) => k <= Len(out)

\* What the tables of the code say of the instructions of a machine.
Reads(machine, i) ==
  CASE machine = "jvm" ->
         /\ i.kind \in {"plain", "tableswitch", "lookupswitch", "wide"}
         /\ i.kind = "plain" => i.op \notin {170, 171, 196} /\ Listing!FixedLength(i.op) = i.n
         /\ i.kind = "tableswitch" => i.op = 170
         /\ i.kind = "lookupswitch" => i.op = 171
    [] machine = "dex" ->
         /\ i.kind \in {"plain", "payload"}
         /\ i.kind = "plain" => Listing!DexLength(i.op) = i.n
    [] machine = "il" ->
         /\ i.kind \in {"il", "prefix", "switch"}
         /\ i.kind = "il" => /\ i.op \notin {69, 254}
                             /\ i.op \notin {121, 143, 163, 164, 165, 194, 198} =>
                                  Listing!OperandTable(i.op) = i.n
         /\ i.kind = "prefix" /\ i.op \notin {6, 7, 18, 25} =>
              Listing!OperandTable(65024 + i.op) = i.n
         /\ i.kind = "switch" => i.op = 69
    [] machine = "python" -> i.kind = "plain" /\ i.n = 2
    [] machine = "lua"    -> i.kind = "plain" /\ i.n = 4

LEMMA JvmTable ==
  ASSUME NEW i \in Listing!JvmInstructions
  PROVE  i \in Instructions /\ Reads("jvm", i)
<1> USE DEF Listing!JvmInstructions, Listing!Fixed, Listing!NoOperand, Listing!LocalIndex,
            Listing!PoolIndex, Listing!Branch
<1>1. i \in Instructions
  BY DEF Instructions, OpKinds
<1>2. /\ i.kind \in {"plain", "tableswitch", "lookupswitch", "wide"}
      /\ i.kind = "tableswitch" => i.op = 170
      /\ i.kind = "lookupswitch" => i.op = 171
  OBVIOUS
<1>3. i.kind = "plain" => i.op \notin {170, 171, 196} /\ Listing!FixedLength(i.op) = i.n
  BY DEF Listing!FixedLength
<1> QED
  BY <1>1, <1>2, <1>3 DEF Reads

LEMMA DexTable ==
  ASSUME NEW i \in Listing!DexInstructions
  PROVE  i \in Instructions /\ Reads("dex", i)
<1> USE DEF Listing!DexInstructions, Listing!Fixed, Listing!Format1, Listing!Format2, Listing!Format3
<1>1. i \in Instructions
  BY DEF Instructions, OpKinds
<1>2. i.kind = "plain" => Listing!DexLength(i.op) = i.n
  BY DEF Listing!DexLength
<1> QED
  BY <1>1, <1>2 DEF Reads

LEMMA ILTable ==
  ASSUME NEW i \in Listing!ILInstructions
  PROVE  i \in Instructions /\ Reads("il", i)
<1> USE DEF Listing!ILInstructions, Listing!Fixed, Listing!ILNone, Listing!ILShort, Listing!ILToken
<1>1. i \in Instructions
  BY DEF Instructions, OpKinds
<1>2. i.kind \in {"il", "prefix", "switch"} /\ (i.kind = "switch" => i.op = 69)
  OBVIOUS
<1>3. i.kind = "il" => i.op \notin {69, 254}
  OBVIOUS
<1>4. i.kind = "il" /\ i.op \notin {121, 143, 163, 164, 165, 194, 198} => Listing!OperandTable(i.op) = i.n
  BY DEF Listing!OperandTable
<1>5. i.kind = "prefix" /\ i.op \notin {6, 7, 18, 25} => Listing!OperandTable(65024 + i.op) = i.n
  BY DEF Listing!OperandTable
<1> QED
  BY <1>1, <1>2, <1>3, <1>4, <1>5 DEF Reads

LEMMA MachineInstructions ==
  ASSUME NEW machine \in {"jvm", "dex", "il", "python", "lua"}, NEW i \in Listing!InstructionsOf(machine)
  PROVE  i \in Instructions /\ Reads(machine, i)
<1>1. CASE machine = "jvm"
  BY <1>1, JvmTable DEF Listing!InstructionsOf
<1>2. CASE machine = "dex"
  BY <1>2, DexTable DEF Listing!InstructionsOf
<1>3. CASE machine = "il"
  BY <1>3, ILTable DEF Listing!InstructionsOf
<1>4. CASE machine = "python"
  <2>1. i \in [kind : {"plain"}, op : 0 .. 255, n : {2}]
    BY <1>4 DEF Listing!InstructionsOf, Listing!Fixed
  <2> QED
    BY <1>4, <2>1 DEF Instructions, OpKinds, Reads
<1>5. CASE machine = "lua"
  <2>1. i \in [kind : {"plain"}, op : 0 .. 255, n : {4}]
    BY <1>5 DEF Listing!InstructionsOf, Listing!Fixed
  <2> QED
    BY <1>5, <2>1 DEF Instructions, OpKinds, Reads
<1> QED
  BY <1>1, <1>2, <1>3, <1>4, <1>5

LEMMA ListingInputs ==
  ASSUME Listing!BodiesAssumption, ListingInput
  PROVE  LET code == Listing!Code(input.body)
         IN  /\ input.body \in Seq(Instructions) /\ input.cut \in Nat
             /\ input.machine \in {"jvm", "dex", "il", "python", "lua"}
             /\ \A k \in 1 .. Len(input.body) :
                  Reads(input.machine, input.body[k])
             /\ Len(code) \in Nat /\ Listing!Size \in Nat /\ Listing!Size <= Len(code)
             /\ input.cut = 0 => Listing!Size = Len(code)
             /\ \A pc \in Nat : pc < Listing!Size => Listing!At(pc) = code[pc + 1]
<1> DEFINE code == Listing!Code(input.body)
<1>1. PICK b \in Bodies :
        input = [machine |-> b.machine, body |-> b.body, cut |-> b.cut,
                 code |-> SubSeq(Listing!Code(b.body), 1, Listing!AtLeast(Len(Listing!Code(b.body)) - b.cut, 0))]
  BY DEF ListingInput
<1> DEFINE size == Listing!AtLeast(Len(code) - input.cut, 0)
<1>2. /\ input.machine = b.machine /\ input.body = b.body /\ input.cut = b.cut
      /\ input.code = SubSeq(code, 1, size)
  BY <1>1
<1>3. /\ input.machine \in {"jvm", "dex", "il", "python", "lua"}
      /\ input.body \in Seq(Listing!InstructionsOf(input.machine))
      /\ input.cut \in Nat
  BY <1>2 DEF Listing!BodiesAssumption
<1>4. \A k \in 1 .. Len(input.body) : input.body[k] \in Listing!InstructionsOf(input.machine)
  BY <1>3
<1>5. Listing!InstructionsOf(input.machine) \subseteq Instructions
  BY <1>3, MachineInstructions
<1>6. input.body \in Seq(Instructions) /\ Len(input.body) \in Nat
  BY <1>3, <1>5, SeqMonotonic
<1>7. code \in Seq(Cells) /\ Len(code) \in Nat
  <2>1. Len(input.body) \in 0 .. Len(input.body)
    BY <1>6
  <2>2. Listing!Laid(input.body) \in [0 .. Len(input.body) -> Seq(Cells)]
    BY <1>6, LaidOut
  <2>3. code \in Seq(Cells)
    BY <2>1, <2>2 DEF Listing!Code
  <2> HIDE DEF code
  <2> QED
    BY <2>3
<1> HIDE DEF code
<1>8. size \in Nat /\ size <= Len(code) /\ (input.cut = 0 => size = Len(code))
  BY <1>3, <1>7 DEF Listing!AtLeast
<1>9. /\ Listing!Size = size
      /\ \A j \in 1 .. size : input.code[j] = code[j]
  <2> HIDE DEF size
  <2>1. /\ Len(SubSeq(code, 1, size)) = size
        /\ \A j \in 1 .. size : SubSeq(code, 1, size)[j] = code[j]
    BY <1>7, <1>8
  <2> QED
    BY <1>2, <2>1 DEF Listing!Size
<1>10. \A pc \in Nat : pc < size => Listing!At(pc) = code[pc + 1]
  BY <1>8, <1>9 DEF Listing!At
<1>11. ASSUME NEW k \in 1 .. Len(input.body)
       PROVE  Reads(input.machine, input.body[k])
  BY <1>3, <1>4, MachineInstructions
<1> HIDE DEF size
<1> QED
  BY <1>3, <1>6, <1>7, <1>8, <1>9, <1>10, <1>11 DEF code

\* The listing goes on where the assembler put the next instruction.
Reaches(k, p) ==
  /\ p = Len(Listing!Laid(input.body)[k - 1])
  /\ p < Listing!Size
  /\ input.machine = "il" => Listing!OperandAt(p) <= Listing!Size
  /\ input.machine = "lua" => p + 4 <= Listing!Size

LEMMA GoesOn ==
  ASSUME Listing!BodiesAssumption, ListingInput, NEW k \in 1 .. Len(input.body),
         ~Listing!Misread(k), NEW p, Reaches(k, p)
  PROVE  Listing!NextAt(p) = Listing!Clipped(Len(Listing!Laid(input.body)[k]))
<1> DEFINE i == input.body[k]
           size == Listing!Size
           length == LengthOf(i, p)
           a == Listing!Assembled(i, p)
           pad == PaddingAt(p)
<1>1. /\ input.body \in Seq(Instructions) /\ i \in Instructions
      /\ input.machine \in {"jvm", "dex", "il", "python", "lua"} /\ Reads(input.machine, i)
      /\ Len(Listing!Code(input.body)) \in Nat /\ size \in Nat /\ size <= Len(Listing!Code(input.body))
      /\ \A pc \in Nat : pc < size => Listing!At(pc) = Listing!Code(input.body)[pc + 1]
  BY ListingInputs DEF Reaches
<1>2. /\ p \in Nat /\ Len(Listing!Laid(input.body)[k]) = p + length
      /\ p + length <= Len(Listing!Code(input.body))
      /\ \A j \in 1 .. length : Listing!Code(input.body)[p + j] = a[j]
  BY <1>1, InstructionStands DEF Reaches
<1>3. length \in Nat \ {0} /\ Telling(a, i, p)
  BY <1>1, <1>2, AssembledIs
<1>4. /\ i.n \in Nat /\ i.op \in Nat /\ i.kind \in OpKinds
      /\ i.kind = "plain" => i.n > 0
      /\ i.kind = "wide" => i.n \in {4, 6} /\ (i.op = 132 <=> i.n = 6)
  BY <1>1 DEF Instructions
<1>10. /\ i.kind # "payload"
       /\ i.kind = "il" => i.op \notin {121, 143, 163, 164, 165, 194, 198}
       /\ i.kind = "prefix" => i.op \notin {6, 7, 18, 25}
       /\ i.kind = "switch" => size \notin p + 2 .. p + 4
  BY DEF Listing!Misread, Listing!Starts, Reaches
<1>5. pad \in 0 .. 3 /\ Listing!Padding(p) = pad
  BY <1>2, PaddingBounds
<1>8. p < size
  BY DEF Reaches
<1> HIDE DEF i, a, pad, size, length
<1>n. i.n \in Nat /\ p \in Nat /\ size \in Nat /\ pad \in 0 .. 3
  BY <1>1, <1>2, <1>4, <1>5
<1>6. ASSUME NEW j \in 1 .. length, p + j <= size
      PROVE  Listing!At(p + j - 1) = a[j]
  <2>1. p + j - 1 \in Nat /\ p + j - 1 < size /\ (p + j - 1) + 1 = p + j
    BY <1>1, <1>2, <1>3, <1>6
  <2> QED
    BY <1>1, <1>2, <2>1
<1>7. Listing!At(p) = a[1] /\ Listing!At(p).byte = FirstByte(i)
  <2>1. 1 \in 1 .. length /\ p + 1 <= size /\ p + 1 - 1 = p
    BY <1>1, <1>2, <1>3, <1>8
  <2>2. Listing!At(p) = a[1]
    BY <1>6, <2>1
  <2> QED
    BY <1>3, <2>2 DEF Telling
<1>9. ASSUME NEW n \in Nat, n = length \/ (n = size - p /\ size < p + length)
      PROVE  Listing!Clipped(p + n) = Listing!Clipped(p + length)
  <2>1. CASE n = length
    BY <2>1
  <2>2. CASE n = size - p /\ size < p + length
    <3>1. p + n = size /\ ~(p + n > size) /\ p + length > size
      BY <1>1, <1>2, <1>3, <2>2
    <3> QED
      BY <3>1 DEF Listing!Clipped, size
  <2> QED
    BY <1>9, <2>1, <2>2
<1>15. CASE input.machine = "jvm"
  <2>1. Listing!NextAt(p) = Listing!Clipped(p + Listing!AtLeast(Listing!JvmLength(p), 1))
    BY <1>15 DEF Listing!NextAt
  <2>2. /\ i.kind \in {"plain", "tableswitch", "lookupswitch", "wide"}
        /\ i.kind = "plain" => i.op \notin {170, 171, 196} /\ Listing!FixedLength(i.op) = i.n
        /\ i.kind = "tableswitch" => i.op = 170
        /\ i.kind = "lookupswitch" => i.op = 171
    BY <1>1, <1>15 DEF Reads
  <2> DEFINE n == Listing!JvmLength(p)
  <2> SUFFICES n \in Nat \ {0} /\ (n = length \/ (n = size - p /\ size < p + length))
    <3>1. Listing!AtLeast(n, 1) = n
      BY DEF Listing!AtLeast
    <3> HIDE DEF n
    <3>2. Listing!Clipped(p + n) = Listing!Clipped(p + length)
      BY <1>9
    <3> QED
      BY <1>2, <2>1, <3>1, <3>2 DEF n
  <2>3. CASE i.kind = "plain"
    <3>1. n = Listing!FixedLength(i.op)
      BY <1>7, <2>2, <2>3 DEF Listing!JvmLength, FirstByte
    <3> QED
      BY <1>4, <2>2, <2>3, <3>1 DEF LengthOf, length
  <2>4. CASE i.kind = "tableswitch"
    <3>1. length = 13 + pad + 4 * i.n
      BY <2>4 DEF LengthOf, length, pad
    <3>2. n = IF ~Listing!InCode(p + 1 + pad + 4) \/ ~Listing!InCode(p + 1 + pad + 8) THEN size - p
              ELSE 1 + pad + 12 + 4 * Listing!AtLeast(Listing!Number(p + 1 + pad + 8) - Listing!Number(p + 1 + pad + 4) + 1, 0)
      BY <1>5, <1>7, <2>2, <2>4 DEF Listing!JvmLength, FirstByte, size
    <3>m. PICK m \in Nat : m = 4 * i.n
      BY <1>n
    <3>l. length = 13 + pad + m /\ m \in Nat
      BY <3>1, <3>m
    <3>3. CASE p + pad + 12 < size
      <4>1. Listing!InCode(p + 1 + pad + 4) /\ Listing!InCode(p + 1 + pad + 8)
        BY <1>1, <1>2, <1>5, <3>3 DEF Listing!InCode, size
      <4>2. /\ pad + 6 \in 1 .. length /\ pad + 10 \in 1 .. length
            /\ p + (pad + 6) <= size /\ p + (pad + 10) <= size
            /\ p + (pad + 6) - 1 = p + 1 + pad + 4 /\ p + (pad + 10) - 1 = p + 1 + pad + 8
        BY <1>n, <3>l, <3>3
      <4>3. Listing!Number(p + 1 + pad + 4) = 5 /\ Listing!Number(p + 1 + pad + 8) = 4 + i.n
        BY <1>3, <1>6, <2>4, <4>2 DEF Listing!Number, Telling, pad
      <4>4. Listing!Number(p + 1 + pad + 8) - Listing!Number(p + 1 + pad + 4) + 1 = i.n
        BY <1>n, <4>3
      <4>5. n = 1 + pad + 12 + 4 * Listing!AtLeast(i.n, 0)
        BY <3>2, <4>1, <4>4
      <4>6. Listing!AtLeast(i.n, 0) = i.n
        BY <1>4 DEF Listing!AtLeast
      <4> QED
        BY <1>4, <1>5, <3>1, <4>5, <4>6
    <3>4. CASE ~(p + pad + 12 < size)
      <4>1. ~Listing!InCode(p + 1 + pad + 8)
        BY <1>1, <1>2, <1>5, <3>4 DEF Listing!InCode, size
      <4>2. n = size - p
        BY <3>2, <4>1
      <4> QED
        BY <1>n, <1>8, <3>l, <3>4, <4>2
    <3> QED
      BY <3>3, <3>4
  <2>5. CASE i.kind = "lookupswitch"
    <3>1. length = 9 + pad + 8 * i.n
      BY <2>5 DEF LengthOf, length, pad
    <3>2. n = IF ~Listing!InCode(p + 1 + pad + 4) THEN size - p
              ELSE 1 + pad + 8 + 8 * Listing!AtLeast(Listing!Number(p + 1 + pad + 4), 0)
      BY <1>5, <1>7, <2>2, <2>5 DEF Listing!JvmLength, FirstByte, size
    <3>m. PICK m \in Nat : m = 8 * i.n
      BY <1>n
    <3>l. length = 9 + pad + m /\ m \in Nat
      BY <3>1, <3>m
    <3>3. CASE p + pad + 8 < size
      <4>1. Listing!InCode(p + 1 + pad + 4)
        BY <1>1, <1>2, <1>5, <3>3 DEF Listing!InCode, size
      <4>2. pad + 6 \in 1 .. length /\ p + (pad + 6) <= size /\ p + (pad + 6) - 1 = p + 1 + pad + 4
        BY <1>n, <3>l, <3>3
      <4>3. Listing!Number(p + 1 + pad + 4) = i.n
        BY <1>3, <1>6, <2>5, <4>2 DEF Listing!Number, Telling, pad
      <4>4. Listing!AtLeast(i.n, 0) = i.n
        BY <1>4 DEF Listing!AtLeast
      <4>5. n = 1 + pad + 8 + 8 * i.n
        BY <3>2, <4>1, <4>3, <4>4
      <4> QED
        BY <1>4, <1>5, <3>1, <4>5
    <3>4. CASE ~(p + pad + 8 < size)
      <4>1. ~Listing!InCode(p + 1 + pad + 4)
        BY <1>1, <1>2, <1>5, <3>4 DEF Listing!InCode, size
      <4>2. n = size - p
        BY <3>2, <4>1
      <4> QED
        BY <1>n, <1>8, <3>l, <3>4, <4>2
    <3> QED
      BY <3>3, <3>4
  <2>6. CASE i.kind = "wide"
    <3>1. length = i.n /\ i.n \in {4, 6}
      BY <1>4, <2>6 DEF LengthOf, length
    <3>2. n = IF p + 1 >= size THEN 1 ELSE IF Listing!At(p + 1).byte = 132 THEN 6 ELSE 4
      BY <1>7, <2>6 DEF Listing!JvmLength, FirstByte, size
    <3>3. CASE p + 1 >= size
      BY <1>1, <1>2, <1>8, <3>1, <3>2, <3>3
    <3>4. CASE ~(p + 1 >= size)
      <4>1. 2 \in 1 .. length /\ p + 2 <= size /\ p + 2 - 1 = p + 1
        BY <1>1, <1>2, <3>1, <3>4
      <4>2. Listing!At(p + 1) = a[2]
        BY <1>6, <4>1
      <4> QED
        BY <1>3, <1>4, <2>6, <3>1, <3>2, <3>4, <4>2 DEF Telling
    <3> QED
      BY <3>3, <3>4
  <2> QED
    BY <2>2, <2>3, <2>4, <2>5, <2>6
<1>11. CASE input.machine = "dex"
  <2>1. i.kind = "plain" /\ Listing!DexLength(i.op) = i.n
    BY <1>1, <1>10, <1>11 DEF Reads
  <2>2. Listing!DexLength(Listing!At(p).byte) = i.n /\ length = i.n /\ i.n > 0
    BY <1>4, <1>7, <2>1 DEF FirstByte, LengthOf, length
  <2> QED
    BY <1>2, <1>4, <1>11, <2>2 DEF Listing!NextAt, Listing!AtLeast
<1>12. CASE input.machine = "python"
  <2>1. i.kind = "plain" /\ i.n = 2
    BY <1>1, <1>12 DEF Reads
  <2>2. length = 2
    BY <2>1 DEF LengthOf, length
  <2> QED
    BY <1>2, <1>12, <2>2 DEF Listing!NextAt
<1>13. CASE input.machine = "lua"
  <2>1. i.kind = "plain" /\ i.n = 4
    BY <1>1, <1>13 DEF Reads
  <2>2. length = 4 /\ p + 4 <= size
    BY <1>13, <2>1 DEF LengthOf, Reaches, length, size
  <2>3. Listing!Clipped(p + 4) = p + 4
    BY <1>1, <1>2, <2>2 DEF Listing!Clipped, size
  <2> QED
    BY <1>2, <1>13, <2>2, <2>3 DEF Listing!NextAt
<1>14. CASE input.machine = "il"
  <2>1. /\ i.kind \in {"il", "prefix", "switch"}
        /\ i.kind = "il" => i.op \notin {69, 254} /\ Listing!OperandTable(i.op) = i.n
        /\ i.kind = "prefix" => Listing!OperandTable(65024 + i.op) = i.n
        /\ i.kind = "switch" => i.op = 69
    BY <1>1, <1>10, <1>14 DEF Reads
  <2>2. Listing!NextAt(p) = Listing!Clipped(Listing!OperandAt(p) + Listing!Requested(p))
    BY <1>14 DEF Listing!NextAt
  <2>3. CASE i.kind = "il"
    <3>1. /\ ~Listing!Prefixed(p) /\ Listing!At(p).byte = i.op
          /\ Listing!OperandAt(p) = p + 1
      BY <1>7, <2>1, <2>3 DEF FirstByte, Listing!Prefixed, Listing!OperandAt
    <3>2. Listing!Requested(p) = i.n
      BY <2>1, <2>3, <3>1 DEF Listing!Requested, Listing!OperandLength
    <3>3. length = 1 + i.n
      BY <2>3 DEF LengthOf, length
    <3>4. Listing!OperandAt(p) + Listing!Requested(p) = p + length
      BY <1>n, <3>1, <3>2, <3>3
    <3> QED
      BY <1>2, <2>2, <3>4
  <2>4. CASE i.kind = "prefix"
    <3>1. Listing!Prefixed(p) /\ Listing!OperandAt(p) = p + 2 /\ p + 2 <= size
      BY <1>7, <1>14, <2>4 DEF FirstByte, Listing!Prefixed, Listing!OperandAt, Reaches, size
    <3>2. length = 2 + i.n
      BY <2>4 DEF LengthOf, length
    <3>3. 2 \in 1 .. length /\ p + 2 - 1 = p + 1
      BY <1>n, <3>2
    <3>4. Listing!At(p + 1) = a[2]
      BY <1>6, <3>1, <3>3
    <3>5. Listing!At(p + 1).byte = i.op
      BY <1>3, <2>4, <3>4 DEF Telling
    <3>6. Listing!Requested(p) = Listing!OperandLength(65024 + i.op, p + 2)
      BY <3>1, <3>5 DEF Listing!Requested
    <3>7. 65024 + i.op # 69
      BY <1>4
    <3>8. Listing!Requested(p) = i.n
      BY <2>1, <2>4, <3>6, <3>7 DEF Listing!OperandLength
    <3>9. Listing!OperandAt(p) + Listing!Requested(p) = p + length
      BY <1>n, <3>1, <3>2, <3>8
    <3> QED
      BY <1>2, <2>2, <3>9
  <2>5. CASE i.kind = "switch"
    <3>1. ~Listing!Prefixed(p) /\ Listing!At(p).byte = 69 /\ Listing!OperandAt(p) = p + 1
      BY <1>7, <2>1, <2>5 DEF FirstByte, Listing!Prefixed, Listing!OperandAt
    <3>2. length = 5 + 4 * i.n
      BY <2>5 DEF LengthOf, length
    <3>m. PICK m \in Nat : m = 4 * i.n
      BY <1>n
    <3>l. length = 5 + m /\ m \in Nat
      BY <3>2, <3>m
    <3>3. Listing!Requested(p) = IF p + 1 + 4 <= size THEN 4 + 4 * Listing!Number(p + 1) ELSE 0
      BY <3>1 DEF Listing!Requested, Listing!OperandLength, Listing!OperandTable, size
    <3>4. CASE p + 5 <= size
      <4>1. 2 \in 1 .. length /\ p + 2 <= size /\ p + 2 - 1 = p + 1 /\ p + 1 + 4 <= size
        BY <1>n, <3>2, <3>4
      <4>2. Listing!At(p + 1) = a[2]
        BY <1>6, <4>1
      <4>3. Listing!Number(p + 1) = i.n
        BY <1>3, <2>5, <4>2 DEF Listing!Number, Telling
      <4>4. Listing!Requested(p) = 4 + m
        BY <3>m, <3>3, <4>1, <4>3
      <4>5. Listing!OperandAt(p) + Listing!Requested(p) = p + length
        BY <1>n, <3>1, <3>l, <4>4
      <4> QED
        BY <1>2, <2>2, <4>5
    <3>5. CASE ~(p + 5 <= size)
      <4>1. size = p + 1
        BY <1>n, <1>8, <1>10, <2>5, <3>5
      <4>2. ~(p + 1 + 4 <= size)
        BY <1>1, <1>2, <3>5
      <4>3. Listing!OperandAt(p) + Listing!Requested(p) = p + 1
        BY <1>2, <3>1, <3>3, <4>2
      <4>4. 1 \in Nat /\ 1 = size - p /\ size < p + length
        BY <1>1, <1>2, <1>4, <3>2, <4>1
      <4> QED
        BY <1>2, <1>9, <2>2, <4>3, <4>4
    <3> QED
      BY <3>4, <3>5
  <2> QED
    BY <2>1, <2>3, <2>4, <2>5
<1> QED
  BY <1>1, <1>15, <1>11, <1>12, <1>13, <1>14

LEMMA ListingInit ==
  ASSUME Listing!BodiesAssumption, Listing!Init
  PROVE  ListingInv
<1>1. ListingInput
  BY DEF Listing!Init, ListingInput
<1>2. out = <<>> /\ pos = 0 /\ status = "reading"
  BY DEF Listing!Init
<1>3. input.body \in Seq(Instructions) /\ Listing!Size \in Nat
  BY <1>1, ListingInputs
<1>4. Listing!Laid(input.body)[0] = <<>> /\ Len(input.body) \in Nat
  BY <1>3, LaidOut
<1>5. out \in Seq(Nat) /\ Len(out) = 0
  BY <1>2
<1>6. Listing!Clipped(0) = 0
  BY <1>3 DEF Listing!Clipped
<1>7. Len(Listing!Laid(input.body)[Len(out)]) = 0
  BY <1>4, <1>5
<1> QED
  BY <1>1, <1>2, <1>4, <1>5, <1>6, <1>7 DEF ListingInv

\* Before the end of the code there is an instruction where the listing is.
LEMMA StandsAt ==
  ASSUME Listing!BodiesAssumption, ListingInv, status = "reading", pos < Listing!Size,
         Listing!InStep(Len(out) + 1)
  PROVE  /\ pos \in Nat /\ pos = Len(Listing!Laid(input.body)[Len(out)])
         /\ Len(out) + 1 \in 1 .. Len(input.body)
<1> DEFINE n == Len(out)  N == Len(input.body)  laid == Listing!Laid(input.body)  size == Listing!Size
<1>1. /\ input.body \in Seq(Instructions) /\ size \in Nat /\ size <= Len(Listing!Code(input.body))
  BY ListingInputs DEF ListingInv
<1>2. n \in Nat /\ N \in Nat /\ n <= N
  BY <1>1 DEF ListingInv
<1>3. Len(laid[n]) \in Nat
  BY <1>1, <1>2, LaidFirst
<1>4. pos = Listing!Clipped(Len(laid[n]))
  BY DEF ListingInv
<1> HIDE DEF size
<1>5. pos = Len(laid[n])
  BY <1>1, <1>4 DEF Listing!Clipped, size
<1>6. n # N
  <2> SUFFICES ASSUME n = N PROVE FALSE
    OBVIOUS
  <2>1. pos = Len(Listing!Code(input.body))
    BY <1>5 DEF Listing!Code
  <2> HIDE DEF n, laid
  <2> QED
    BY <1>1, <1>3, <1>5, <2>1 DEF size
<1> HIDE DEF n, N
<1>7. n + 1 \in 1 .. N
  BY <1>2, <1>6
<1> QED
  BY <1>3, <1>5, <1>7 DEF n, N, laid

\* In step at one instruction, in step before it; and then the one before was read right.
LEMMA StepBefore ==
  ASSUME NEW n \in Nat, Listing!InStep(n + 1)
  PROVE  Listing!InStep(n) /\ (n \in 1 .. Len(input.body) => ~Listing!Misread(n))
<1>1. \A j \in 1 .. Len(input.body) : j < n + 1 => ~Listing!Misread(j)
  BY DEF Listing!InStep
<1>2. \A j \in 1 .. Len(input.body) : j < n => j < n + 1
  OBVIOUS
<1>3. n < n + 1
  OBVIOUS
<1> QED
  BY <1>1, <1>2, <1>3 DEF Listing!InStep

LEMMA ListingPrints ==
  ASSUME Listing!BodiesAssumption, ListingInv, Listing!PrintInstruction
  PROVE  ListingInv'
<1> DEFINE n == Len(out)
           laid == Listing!Laid(input.body)
<1>1. /\ status = "reading" /\ pos < Listing!Size /\ out' = Append(out, pos) /\ pos' = Listing!NextAt(pos)
      /\ input' = input /\ status' = status
      /\ input.machine = "il" => Listing!OperandAt(pos) <= Listing!Size
      /\ input.machine = "lua" => pos + 4 <= Listing!Size
  BY DEF Listing!PrintInstruction
<1>2. Listing!InStep(n + 1) =>
        pos = Len(laid[n]) /\ n + 1 \in 1 .. Len(input.body)
  BY <1>1, StandsAt
<1>3. PICK S : out \in Seq(S)
  BY DEF ListingInv
<1>4. n \in Nat /\ (n + 1) - 1 = n
  BY <1>3
<1>5. ListingInput /\ \A k \in 1 .. n : Listing!InStep(k) => k <= Len(input.body) /\ out[k] = Len(laid[k - 1])
  BY DEF ListingInv
<1>6. ListingInput'
  BY <1>1, <1>5 DEF ListingInput
<1>7. out' \in Seq(S \cup {pos}) /\ Len(out') = n + 1 /\ out'[n + 1] = pos /\ \A k \in 1 .. n : out'[k] = out[k]
  <2>1. out \in Seq(S \cup {pos})
    BY <1>3, SeqMonotonic
  <2> QED
    BY <1>1, <2>1, AppendProperties
<1>8. \A k : Listing!InStep(k)' <=> Listing!InStep(k)
  BY <1>1 DEF Listing!InStep, Listing!Misread, Listing!Size
<1>9. ASSUME NEW k \in 1 .. Len(out'), Listing!InStep(k)
      PROVE  k <= Len(input.body) /\ out'[k] = Len(laid[k - 1])
  <2>1. k = n + 1 \/ k \in 1 .. n
    BY <1>4, <1>7
  <2>2. CASE k \in 1 .. n
    BY <1>5, <1>7, <1>9, <2>2
  <2>3. CASE k = n + 1
    BY <1>2, <1>4, <1>7, <1>9, <2>3
  <2> QED
    BY <2>1, <2>2, <2>3
<1>10. ASSUME Listing!InStep(Len(out') + 1)
       PROVE  Len(out') <= Len(input.body) /\ pos' = Listing!Clipped(Len(laid[Len(out')]))
  <2>1. n + 1 \in Nat /\ Listing!InStep((n + 1) + 1)
    BY <1>4, <1>7, <1>10
  <2>2. Listing!InStep(n + 1)
    BY <2>1, StepBefore
  <2>3. pos = Len(laid[n]) /\ n + 1 \in 1 .. Len(input.body)
    BY <1>2, <2>2
  <2>4. ~Listing!Misread(n + 1)
    BY <2>1, <2>3, StepBefore
  <2>5. Reaches(n + 1, pos)
    BY <1>1, <1>4, <2>3 DEF Reaches
  <2>6. pos' = Listing!Clipped(Len(laid[n + 1]))
    BY <1>1, <1>5, <2>3, <2>4, <2>5, GoesOn
  <2>7. n + 1 <= Len(input.body)
    BY <2>3
  <2> QED
    BY <1>7, <2>6, <2>7
<1>11. Len(out') <= Len(input.body) /\ pos' = Listing!Clipped(Len(laid[Len(out')])) =>
         Len(out') <= Len(input'.body) /\ pos' = (Listing!Clipped(Len(Listing!Laid(input.body)[Len(out)])))'
  BY <1>1 DEF Listing!Clipped, Listing!Size
<1>12. \A k \in 1 .. Len(out') : Listing!InStep(k)' => k <= Len(input'.body) /\ out'[k] = Len(Listing!Laid(input'.body)[k - 1])
  BY <1>1, <1>8, <1>9
<1>13. Listing!InStep(Len(out) + 1)' =>
         Len(out') <= Len(input'.body) /\ pos' = (Listing!Clipped(Len(Listing!Laid(input.body)[Len(out)])))'
  BY <1>8, <1>10, <1>11
<1>14. \E T : out' \in Seq(T)
  BY <1>7
<1>15. status' = "reading"
  BY <1>1
<1> QED
  BY <1>6, <1>12, <1>13, <1>14, <1>15 DEF ListingInv

\* A listing in step ends with the last instruction, if no code is missing.
LEMMA EndsAfterAll ==
  ASSUME Listing!BodiesAssumption, ListingInv, status = "reading", input.cut = 0,
         Listing!InStep(Len(out) + 1), Listing!EndOfCode \/ Listing!EndInPrefix
  PROVE  Len(out) = Len(input.body)
<1> DEFINE n == Len(out)  N == Len(input.body)  laid == Listing!Laid(input.body)
           code == Listing!Code(input.body)
<1>1. /\ input.body \in Seq(Instructions) /\ Listing!Size \in Nat /\ Len(code) \in Nat
      /\ Listing!Size = Len(code)
      /\ \A k \in 1 .. N : Reads(input.machine, input.body[k])
      /\ \A pc \in Nat : pc < Listing!Size => Listing!At(pc) = code[pc + 1]
  BY ListingInputs DEF ListingInv
<1>2. n \in Nat /\ N \in Nat /\ n <= N /\ pos = Listing!Clipped(Len(laid[n]))
  BY <1>1 DEF ListingInv
<1>3. CASE Listing!EndOfCode
  <2>1. pos >= Len(code)
    BY <1>1, <1>3 DEF Listing!EndOfCode
  <2>2. Len(laid[n]) \in Nat /\ Len(laid[n]) + (N - n) <= Len(code)
    <3>1. n \in 0 .. N
      BY <1>2
    <3> QED
      BY <1>1, <3>1, LaidFirst
  <2>3. pos <= Len(laid[n]) /\ pos \in Nat
    BY <1>1, <1>2, <2>2 DEF Listing!Clipped
  <2> HIDE DEF n, N, laid, code
  <2>4. n = N
    BY <1>1, <1>2, <2>1, <2>2, <2>3
  <2> QED
    BY <2>4 DEF n, N
<1>4. CASE Listing!EndInPrefix
  <2>1. pos < Listing!Size /\ Listing!OperandAt(pos) > Listing!Size /\ input.machine = "il"
    BY <1>4 DEF Listing!EndInPrefix
  <2>2. pos \in Nat /\ pos = Len(laid[n]) /\ n + 1 \in 1 .. N
    BY <2>1, StandsAt
  <2> DEFINE i == input.body[n + 1]
  <2>3. i \in Instructions /\ (n + 1) - 1 = n /\ i.n \in Nat /\ Reads("il", i)
    BY <1>1, <1>2, <2>1, <2>2 DEF Instructions
  <2>4. /\ pos + LengthOf(i, pos) <= Len(code)
        /\ \A j \in 1 .. LengthOf(i, pos) : code[pos + j] = Listing!Assembled(i, pos)[j]
    <3> DEFINE k == n + 1
    <3>1. k \in 1 .. N /\ k - 1 = n
      BY <2>2, <2>3
    <3> HIDE DEF k
    <3>2. LET p == Len(laid[k - 1])
          IN  /\ p + LengthOf(input.body[k], p) <= Len(code)
              /\ \A j \in 1 .. LengthOf(input.body[k], p) : code[p + j] = Listing!Assembled(input.body[k], p)[j]
      BY <1>1, <3>1, InstructionStands
    <3> HIDE DEF n, laid, code
    <3> QED
      BY <2>2, <3>1, <3>2 DEF k
  <2>5. LengthOf(i, pos) \in Nat \ {0} /\ Listing!Assembled(i, pos)[1].byte = FirstByte(i)
    BY <2>2, <2>3, AssembledIs DEF Telling
  <2>6. Listing!At(pos).byte = FirstByte(i)
    <3>1. Listing!At(pos) = code[pos + 1]
      BY <1>1, <2>1, <2>2
    <3>2. 1 \in 1 .. LengthOf(i, pos)
      BY <2>5
    <3> HIDE DEF i, code
    <3> QED
      BY <2>4, <2>5, <3>1, <3>2
  <2> HIDE DEF i
  <2>7. CASE i.kind = "prefix"
    <3>1. Listing!OperandAt(pos) = pos + 2
      BY <2>6, <2>7 DEF FirstByte, Listing!Prefixed, Listing!OperandAt
    <3>2. LengthOf(i, pos) = 2 + i.n
      BY <2>7 DEF LengthOf
    <3> HIDE DEF code
    <3> QED
      BY <1>1, <2>1, <2>2, <2>3, <2>4, <3>1, <3>2
  <2>8. CASE i.kind # "prefix"
    <3>1. Listing!At(pos).byte # 254
      BY <2>3, <2>6, <2>8 DEF Reads, FirstByte
    <3>2. Listing!OperandAt(pos) = pos + 1
      BY <3>1 DEF Listing!Prefixed, Listing!OperandAt
    <3> QED
      BY <1>1, <2>1, <2>2, <3>2
  <2> QED
    BY <2>7, <2>8
<1> QED
  BY <1>3, <1>4

LEMMA ListingEnds ==
  ASSUME Listing!BodiesAssumption, ListingInv,
         Listing!EndInPrefix \/ Listing!Truncated \/ Listing!EndOfCode
  PROVE  ListingInv'
<1>1. UNCHANGED <<input, pos, stack, out>> /\ status = "reading" /\ status' \in {"done", "end"}
  BY DEF Listing!EndInPrefix, Listing!Truncated, Listing!EndOfCode
<1>2. Len(out) \in Nat /\ Len(input.body) \in Nat
  BY ListingInputs DEF ListingInv
<1>3. ASSUME status' = "done", input.cut = 0, NEW k \in 1 .. Len(input.body), Listing!InStep(k)
      PROVE  k <= Len(out)
  <2> SUFFICES ASSUME ~(k <= Len(out)) PROVE FALSE
    OBVIOUS
  <2>1. Listing!EndOfCode \/ Listing!EndInPrefix
    BY <1>3 DEF Listing!Truncated
  <2>2. Listing!InStep(Len(out) + 1)
    <3>1. \A j \in 1 .. Len(input.body) : j < Len(out) + 1 => j < k
      BY <1>2
    <3> QED
      BY <1>3, <3>1 DEF Listing!InStep
  <2>3. Len(out) = Len(input.body)
    BY <1>1, <1>3, <2>1, <2>2, EndsAfterAll
  <2> QED
    BY <1>2, <2>3
<1>4. \A k : Listing!InStep(k)' <=> Listing!InStep(k)
  BY <1>1 DEF Listing!InStep, Listing!Misread, Listing!Size
<1>5. ListingInput'
  BY <1>1 DEF ListingInput, ListingInv
<1> QED
  BY <1>1, <1>3, <1>4, <1>5 DEF ListingInv

LEMMA ListingStays ==
  ASSUME ListingInv, UNCHANGED Listing!vars
  PROVE  ListingInv'
<1>1. UNCHANGED <<input, pos, out, status>>
  BY DEF Listing!vars
<1>2. ListingInput'
  BY <1>1 DEF ListingInv, ListingInput
<1>4. \A k : Listing!InStep(k)' <=> Listing!InStep(k)
  BY <1>1 DEF Listing!InStep, Listing!Misread, Listing!Size
<1>3. \A n : Listing!Clipped(n)' = Listing!Clipped(n)
  BY <1>1 DEF Listing!Clipped, Listing!Size
<1> QED
  BY <1>1, <1>2, <1>3, <1>4 DEF ListingInv

LEMMA ListingShows ==
  ASSUME Listing!BodiesAssumption, ListingInv
  PROVE  Listing!InstructionsInStep
<1>1. Len(out) \in Nat /\ Len(input.body) \in Nat
  BY ListingInputs DEF ListingInv
<1>2. ASSUME NEW k \in 1 .. Len(out), Listing!InStep(k)
      PROVE  k <= Len(input.body) /\ out[k] = Listing!Starts(input.body)[k]
  <2>1. k <= Len(input.body) /\ out[k] = Len(Listing!Laid(input.body)[k - 1])
    BY <1>2 DEF ListingInv
  <2>2. k \in 1 .. Len(input.body)
    BY <1>1, <2>1
  <2> QED
    BY <2>1, <2>2 DEF Listing!Starts
<1>3. status = "done" /\ input.cut = 0 =>
        \A k \in 1 .. Len(input.body) : Listing!InStep(k) => k <= Len(out)
  BY DEF ListingInv
<1> QED
  BY <1>2, <1>3 DEF Listing!InstructionsInStep

-----------------------------------------------------------------------------
(***************************************************************************)
(* Detection: no rule before the one at pos holds.                         *)
(***************************************************************************)
Tools == {"jvm-class", "jvm-jar", "apk", "dex", "wasm", "lua", "python", "editor",
          "dotnet", "go", "rust", "swift", "cc"}

DetectInv ==
  /\ input \in Files /\ pos \in 1 .. 11
  /\ status \in {"detecting", "done"}
  /\ \A i \in 1 .. pos - 1 : ~Detect!Rules(input)[i].holds
  /\ status = "done" =>
       /\ Detect!Rules(input)[pos].holds
       /\ out = <<Detect!Rules(input)[pos].kind,
                  IF Detect!Rules(input)[pos].kind = "native" THEN Detect!LanguageOf(input)
                  ELSE Detect!Rules(input)[pos].kind>>

LEMMA DetectSteps ==
  ASSUME DetectInv, Detect!Next
  PROVE  DetectInv'
<1>1. CASE Detect!NextRule
  <2>1. /\ status = "detecting" /\ ~Detect!Rules(input)[pos].holds
        /\ pos' = pos + 1 /\ input' = input /\ status' = status
    BY <1>1 DEF Detect!NextRule, Detect!Rule, Detect!Ordered
  <2>2. pos # 11
    <3>1. Detect!Rules(input)[11].holds
      BY DEF Detect!Rules
    <3> QED
      BY <2>1, <3>1
  <2>3. \A i \in 1 .. pos' - 1 : i = pos \/ i \in 1 .. pos - 1
    BY <2>1 DEF DetectInv
  <2> QED
    BY <2>1, <2>2, <2>3 DEF DetectInv
<1>2. CASE Detect!Decide
  BY <1>2 DEF DetectInv, Detect!Decide, Detect!Rule, Detect!Ordered
<1> QED
  BY <1>1, <1>2 DEF Detect!Next

\* The rules one by one.
LEMMA RuleByRule ==
  ASSUME NEW f
  PROVE  LET r == Detect!Rules(f)
         IN  /\ r[1].kind = "jvm-class" /\ r[1].holds = (f.ext = "class" /\ f.head = "cafebabe")
             /\ r[2].kind = "jvm-jar"   /\ r[2].holds = (f.ext = "jar" /\ f.head = "PK")
             /\ r[3].kind = "apk"       /\ r[3].holds = (f.ext = "apk" /\ f.head = "PK")
             /\ r[4].kind = "dex"       /\ r[4].holds = (f.head = "dex" \/ f.ext = "dex")
             /\ r[5].kind = "wasm"      /\ r[5].holds = (f.head = "asm")
             /\ r[6].kind = "lua"       /\ r[6].holds = (f.head = "Lua" \/ f.ext = "luac")
             /\ r[7].kind = "python"    /\ r[7].holds = (f.ext = "pyc")
             /\ r[8].kind = "dotnet"    /\ r[8].holds = (f.head = "MZ" /\ (Detect!HasClr(f) \/ f.metadata))
             /\ r[9].kind = "native"    /\ r[9].holds = (f.head \in {"MZ", "ELF", "feedface", "cafebabe"})
             /\ r[10].kind = "source"   /\ r[10].holds = (f.ext \in Detect!SourceExtensions)
             /\ r[11].kind = "unknown"  /\ r[11].holds = TRUE
BY DEF Detect!Rules

LEMMA DetectShows ==
  ASSUME Detect!FilesAssumption, DetectInv
  PROVE  Detect!SentToItsEngine
<1> SUFFICES ASSUME status = "done"
             PROVE  Detect!SentToItsEngine
  BY DEF Detect!SentToItsEngine
<1> DEFINE r == Detect!Rules(input)
<1>1. /\ pos \in 1 .. 11 /\ \A i \in 1 .. 11 : i < pos => ~r[i].holds
      /\ r[pos].holds
      /\ out[1] = r[pos].kind
      /\ r[pos].kind = "native" => out = <<"native", Detect!LanguageOf(input)>>
  BY DEF DetectInv
<1>2. /\ input.tool \in Tools /\ input.head \in Detect!HeadsOf(input.tool)
      /\ input.tool = "editor" => input.ext \notin {"dex", "luac", "pyc"}
      /\ input.tool = "dotnet" => Detect!HasClr(input) \/ input.metadata
      /\ input.tool \in {"go", "rust", "swift", "cc"} =>
           /\ ~Detect!HasClr(input) /\ ~input.metadata
           /\ input.head = "cafebabe" => input.ext # "class"
           /\ Detect!LanguageOf(input) = IF input.tool = "cc" THEN "native" ELSE input.tool
  <2>1. input \in Files
    BY DEF DetectInv
  <2>2. /\ input.tool \in Tools /\ input.head \in Detect!HeadsOf(input.tool)
        /\ input.tool = "editor" => input.ext \notin {"dex", "luac", "pyc"}
        /\ input.tool = "dotnet" => Detect!HasClr(input) \/ input.metadata
    BY <2>1 DEF Detect!FilesAssumption, Tools
  <2>3. ASSUME input.tool \in {"go", "rust", "swift", "cc"}
        PROVE  /\ ~Detect!HasClr(input) /\ ~input.metadata
               /\ input.head = "cafebabe" => input.ext # "class"
               /\ Detect!LanguageOf(input) = IF input.tool = "cc" THEN "native" ELSE input.tool
    <3>1. /\ ~input.clr /\ ~input.metadata
          /\ input.head = "cafebabe" => input.ext # "class"
          /\ Detect!GoMarked(input) <=> input.tool = "go"
          /\ Detect!RustMarked(input) => input.tool \in {"go", "rust"}
          /\ input.tool = "rust" => Detect!RustMarked(input)
          /\ Detect!SwiftMarked(input) => input.tool \in {"go", "rust", "swift"}
          /\ input.tool = "swift" => Detect!SwiftMarked(input)
      BY <2>1, <2>3 DEF Detect!FilesAssumption
    <3>2. Detect!LanguageOf(input) = IF input.tool = "cc" THEN "native" ELSE input.tool
      <4>1. CASE input.tool = "go"
        BY <3>1, <4>1 DEF Detect!LanguageOf
      <4>2. CASE input.tool = "rust"
        BY <3>1, <4>2 DEF Detect!LanguageOf
      <4>3. CASE input.tool = "swift"
        BY <3>1, <4>3 DEF Detect!LanguageOf
      <4>4. CASE input.tool = "cc"
        BY <3>1, <4>4 DEF Detect!LanguageOf
      <4> QED
        BY <2>3, <4>1, <4>2, <4>3, <4>4
    <3> QED
      BY <3>1, <3>2 DEF Detect!HasClr
  <2> QED
    BY <2>2, <2>3
<1>3. /\ r[1].kind = "jvm-class" /\ r[1].holds = (input.ext = "class" /\ input.head = "cafebabe")
      /\ r[2].kind = "jvm-jar"   /\ r[2].holds = (input.ext = "jar" /\ input.head = "PK")
      /\ r[3].kind = "apk"       /\ r[3].holds = (input.ext = "apk" /\ input.head = "PK")
      /\ r[4].kind = "dex"       /\ r[4].holds = (input.head = "dex" \/ input.ext = "dex")
      /\ r[5].kind = "wasm"      /\ r[5].holds = (input.head = "asm")
      /\ r[6].kind = "lua"       /\ r[6].holds = (input.head = "Lua" \/ input.ext = "luac")
      /\ r[7].kind = "python"    /\ r[7].holds = (input.ext = "pyc")
      /\ r[8].kind = "dotnet"    /\ r[8].holds = (input.head = "MZ" /\ (Detect!HasClr(input) \/ input.metadata))
      /\ r[9].kind = "native"    /\ r[9].holds = (input.head \in {"MZ", "ELF", "feedface", "cafebabe"})
      /\ r[10].kind = "source"   /\ r[10].holds = (input.ext \in Detect!SourceExtensions)
      /\ r[11].kind = "unknown"
  BY RuleByRule
<1> HIDE DEF r
<1>4. pos \in {1, 2, 3, 4, 5, 6, 7, 8, 9, 10, 11}
  BY <1>1
<1>5. CASE input.tool \in {"go", "rust", "swift", "cc"}
  <2>1. input.head \in {"MZ", "ELF", "feedface", "cafebabe"}
    BY <1>2, <1>5 DEF Detect!HeadsOf
  <2>2. ASSUME input.ext \notin {"dex", "luac", "pyc"} PROVE pos = 9
    <3>1. ~r[1].holds /\ ~r[2].holds /\ ~r[3].holds /\ ~r[4].holds /\ ~r[5].holds /\ ~r[6].holds
          /\ ~r[7].holds /\ ~r[8].holds /\ r[9].holds
      BY <1>2, <1>3, <1>5, <2>1, <2>2
    <3> QED
      BY <1>1, <1>4, <3>1
  <2>3. ASSUME input.ext \notin {"dex", "luac", "pyc"}
        PROVE  out = <<"native", IF input.tool = "cc" THEN "native" ELSE input.tool>>
    BY <1>1, <1>2, <1>3, <1>5, <2>2, <2>3
  <2> QED
    BY <1>5, <2>3 DEF Detect!SentToItsEngine
<1>6. CASE input.tool \in {"dotnet", "lua", "wasm"}
  <2>1. ASSUME input.ext \notin {"dex", "luac", "pyc"} PROVE out[1] = input.tool
    <3>1. CASE input.tool = "dotnet"
      <4>1. input.head = "MZ"
        BY <1>2, <3>1 DEF Detect!HeadsOf
      <4>2. ~r[1].holds /\ ~r[2].holds /\ ~r[3].holds /\ ~r[4].holds /\ ~r[5].holds /\ ~r[6].holds
            /\ ~r[7].holds /\ r[8].holds
        BY <1>2, <1>3, <2>1, <3>1, <4>1
      <4>3. pos = 8
        BY <1>1, <1>4, <4>2
      <4> QED
        BY <1>1, <1>3, <3>1, <4>3
    <3>2. CASE input.tool = "lua"
      <4>1. input.head = "Lua"
        BY <1>2, <3>2 DEF Detect!HeadsOf
      <4>2. ~r[1].holds /\ ~r[2].holds /\ ~r[3].holds /\ ~r[4].holds /\ ~r[5].holds /\ r[6].holds
        BY <1>3, <2>1, <4>1
      <4>3. pos = 6
        BY <1>1, <1>4, <4>2
      <4> QED
        BY <1>1, <1>3, <3>2, <4>3
    <3>3. CASE input.tool = "wasm"
      <4>1. input.head = "asm"
        BY <1>2, <3>3 DEF Detect!HeadsOf
      <4>2. ~r[1].holds /\ ~r[2].holds /\ ~r[3].holds /\ ~r[4].holds /\ r[5].holds
        BY <1>3, <2>1, <4>1
      <4>3. pos = 5
        BY <1>1, <1>4, <4>2
      <4> QED
        BY <1>1, <1>3, <3>3, <4>3
    <3> QED
      BY <1>6, <3>1, <3>2, <3>3
  <2>2. <<input.tool, input.ext>> = <<"lua", "luac">> => out[1] = "lua"
    <3> SUFFICES ASSUME input.tool = "lua", input.ext = "luac" PROVE out[1] = "lua"
      OBVIOUS
    <3>1. input.head = "Lua"
      BY <1>2 DEF Detect!HeadsOf
    <3>2. ~r[1].holds /\ ~r[2].holds /\ ~r[3].holds /\ ~r[4].holds /\ ~r[5].holds /\ r[6].holds
      BY <1>3, <3>1
    <3>3. pos = 6
      BY <1>1, <1>4, <3>2
    <3> QED
      BY <1>1, <1>3, <3>3
  <2> QED
    BY <1>6, <2>1, <2>2 DEF Detect!SentToItsEngine
<1>7. CASE input.tool = "dex"
  <2>1. input.head = "dex"
    BY <1>2, <1>7 DEF Detect!HeadsOf
  <2>2. ~r[1].holds /\ ~r[2].holds /\ ~r[3].holds /\ r[4].holds
    BY <1>3, <2>1
  <2>3. pos = 4
    BY <1>1, <1>4, <2>2
  <2>4. out[1] = "dex"
    BY <1>1, <1>3, <2>3
  <2> QED
    BY <1>7, <2>4 DEF Detect!SentToItsEngine
<1>8. CASE input.tool = "python"
  <2>1. input.head = ""
    BY <1>2, <1>8 DEF Detect!HeadsOf
  <2>2. ASSUME input.ext = "pyc" PROVE out[1] = "python"
    <3>1. ~r[1].holds /\ ~r[2].holds /\ ~r[3].holds /\ ~r[4].holds /\ ~r[5].holds /\ ~r[6].holds /\ r[7].holds
      BY <1>3, <2>1, <2>2
    <3>2. pos = 7
      BY <1>1, <1>4, <3>1
    <3> QED
      BY <1>1, <1>3, <3>2
  <2> QED
    BY <1>8, <2>2 DEF Detect!SentToItsEngine
<1>9. CASE input.tool = "jvm-class"
  <2>1. input.head = "cafebabe"
    BY <1>2, <1>9 DEF Detect!HeadsOf
  <2>2. ASSUME input.ext = "class" PROVE out[1] = "jvm-class"
    <3>1. r[1].holds
      BY <1>3, <2>1, <2>2
    <3>2. pos = 1
      BY <1>1, <1>4, <3>1
    <3> QED
      BY <1>1, <1>3, <3>2
  <2> QED
    BY <1>9, <2>2 DEF Detect!SentToItsEngine
<1>10. CASE input.tool \in {"jvm-jar", "apk"}
  <2>1. input.head = "PK"
    BY <1>2, <1>10 DEF Detect!HeadsOf
  <2>2. ASSUME input.tool = "jvm-jar", input.ext = "jar" PROVE out[1] = "jvm-jar"
    <3>1. ~r[1].holds /\ r[2].holds
      BY <1>3, <2>1, <2>2
    <3>2. pos = 2
      BY <1>1, <1>4, <3>1
    <3> QED
      BY <1>1, <1>3, <3>2
  <2>3. ASSUME input.tool = "apk", input.ext = "apk" PROVE out[1] = "apk"
    <3>1. ~r[1].holds /\ ~r[2].holds /\ r[3].holds
      BY <1>3, <2>1, <2>3
    <3>2. pos = 3
      BY <1>1, <1>4, <3>1
    <3> QED
      BY <1>1, <1>3, <3>2
  <2> QED
    BY <1>10, <2>2, <2>3 DEF Detect!SentToItsEngine
<1>11. CASE input.tool = "editor"
  <2>1. input.head = ""
    BY <1>2, <1>11 DEF Detect!HeadsOf
  <2>2. ~r[1].holds /\ ~r[2].holds /\ ~r[3].holds /\ ~r[4].holds /\ ~r[5].holds /\ ~r[6].holds
        /\ ~r[7].holds /\ ~r[8].holds /\ ~r[9].holds
    BY <1>2, <1>3, <1>11, <2>1
  <2>3. pos \in {10, 11}
    BY <1>1, <1>4, <2>2
  <2>4. out[1] = IF input.ext \in Detect!SourceExtensions THEN "source" ELSE "unknown"
    <3>1. CASE pos = 10
      <4>1. r[10].holds /\ out[1] = "source"
        BY <1>1, <1>3, <3>1
      <4>2. input.ext \in Detect!SourceExtensions
        BY <1>3, <4>1
      <4> QED
        BY <4>1, <4>2
    <3>2. CASE pos = 11
      <4>1. ~r[10].holds /\ out[1] = "unknown"
        BY <1>1, <1>3, <3>2
      <4>2. input.ext \notin Detect!SourceExtensions
        BY <1>3, <4>1
      <4> QED
        BY <4>1, <4>2
    <3> QED
      BY <2>3, <3>1, <3>2
  <2> QED
    BY <1>11, <2>4 DEF Detect!SentToItsEngine
<1> QED
  BY <1>2, <1>5, <1>6, <1>7, <1>8, <1>9, <1>10, <1>11 DEF Tools

-----------------------------------------------------------------------------
\* In Engines it is the invariant of the engine that discovers functions; the readers
\* leave that state as it was.
Discovering == IF engine = "functions" THEN IInv ELSE NoFunctions

LEMMA DiscoveringInit == AnyInit => Discovering
<1> SUFFICES ASSUME AnyInit PROVE Discovering
  OBVIOUS
<1>1. CASE engine = "functions" /\ Init
  BY <1>1, Initial DEF Discovering
<1>2. CASE engine # "functions" /\ NoFunctions
  BY <1>2 DEF Discovering
<1> QED
  BY <1>1, <1>2 DEF AnyInit

LEMMA DiscoveringSteps ==
  ASSUME Discovering, [AnyNext]_all
  PROVE  Discovering' /\ (UNCHANGED vars \/ (IInv /\ Next))
<1>1. CASE Discover
  <2>1. engine = "functions" /\ engine' = engine /\ Next /\ IInv
    BY <1>1 DEF Discover, Discovering
  <2>2. IInv'
    BY <2>1, SymbolAdded, PdataAdded, EntryAdded, DiscoveryEnded, CallsDiscovered, SizesInferred DEF Next
  <2> QED
    BY <2>1, <2>2 DEF Discovering
<1>2. CASE engine' = engine /\ UNCHANGED vars
  <2>1. IInv => IInv'
    BY <1>2, Stuttering
  <2>2. NoFunctions => NoFunctions'
    BY <1>2 DEF NoFunctions, vars
  <2> QED
    BY <1>2, <2>1, <2>2 DEF Discovering
<1> QED
  BY <1>1, <1>2 DEF AnyNext, Read, all

\* Whatever the image, the direct calls of the functions printed lead to functions
\* printed, unless a limit kept discovery from its end (discover_x86_functions,
\* infer_unknown_sizes).
THEOREM CallsLeadSomewhere == AnySpec => []CallsListed
<1>1. IInv => CallsListed
  BY DEF IInv, SearchedInv, CallsListed, Closed
<1>2. Discovering => CallsListed
  BY <1>1 DEF Discovering, NoFunctions, CallsListed
<1>3. Discovering /\ [AnyNext]_all => Discovering'
  BY DiscoveringSteps
<1> QED
  BY DiscoveringInit, <1>2, <1>3, PTL DEF AnySpec

\* Whatever the table, an inferred size fits before the next function and the end of
\* the section (infer_unknown_sizes).
THEOREM SizesFit == AnySpec => InferredSizesFit
<1> DEFINE Fits == phase = "sizes" =>
             \A a \in DOMAIN table : table[a].size = 0 =>
               /\ table'[a].size > 0
               /\ a + table'[a].size <= SectionEnd[SectionOf(a)]
               /\ \A b \in DOMAIN table : b > a => a + table'[a].size <= b
<1>1. IInv /\ Next => Fits
  <2> SUFFICES ASSUME IInv, Next, phase = "sizes", NEW a \in DOMAIN table, table[a].size = 0
               PROVE  /\ table'[a].size > 0
                      /\ a + table'[a].size <= SectionEnd[SectionOf(a)]
                      /\ \A b \in DOMAIN table : b > a => a + table'[a].size <= b
    OBVIOUS
  <2>1. InferSizes
    BY DEF Next, AddSymbol, AddPdata, AddEntry, EndDiscovery, DiscoverCalls
  <2>2. table'[a].size = InferredSize(a)
    BY <2>1, InferredBytes
  <2>3. /\ InferredSize(a) \in Nat \ {0}
        /\ a + InferredSize(a) <= SectionEnd[SectionOf(a)]
        /\ \A b \in DOMAIN table : b > a => a + InferredSize(a) <= b
    BY Inferred DEF IInv
  <2> HIDE DEF Fits
  <2> QED
    BY <2>2, <2>3
<1> HIDE DEF Fits
<1>2. Discovering /\ [AnyNext]_all => Discovering' /\ [Fits]_vars
  BY <1>1, DiscoveringSteps
<1>3. AnySpec => [][Fits]_vars
  BY DiscoveringInit, <1>2, PTL DEF AnySpec
<1> QED
  BY <1>3 DEF InferredSizesFit, Fits

\* A function with a name and a size is settled, and one with a name alone keeps it until
\* a symbol of its address brings a size and a name of its own (insert_function): the
\* entry point has a name and no size, the others have no name.
THEOREM NamesAreKept == AnySpec => NamesStick
<1> DEFINE Settled(a) ==
             \/ table'[a] = table[a]
             \/ /\ table[a].size = 0 /\ table'[a].size # 0
                /\ \/ table'[a] = [table[a] EXCEPT !.size = table'[a].size]
                   \/ /\ symbols # <<>> /\ Head(symbols).address = a
                      /\ table'[a] = OfSymbol(Head(symbols)) /\ Named(table'[a])
           Sticks == \A a \in DOMAIN table : Named(table[a]) => Settled(a)
<1>1. IInv /\ Next => Sticks
  <2> SUFFICES ASSUME IInv, Next, NEW a \in DOMAIN table, Named(table[a])
               PROVE  Settled(a)
    OBVIOUS
  <2>1. CASE AddSymbol
    <3> DEFINE s == Head(symbols)
               f == OfSymbol(s)
    <3>1. /\ phase = "symbols" /\ symbols # <<>>
          /\ table' = IF s.address = 0 THEN table ELSE Insert(table, s.address, f)
      BY <2>1 DEF AddSymbol
    <3>2. /\ s \in [address : Nat, size : Nat, name : SymbolNames]
          /\ s.address = 0 \/ HasSection(s.address)
      BY <3>1, TakenFrom DEF IInv, SeedInv
    <3>3. f \in Records
      BY <3>2 DEF Records, OfSymbol, AllNames
    <3>4. CASE s.address = 0
      BY <3>1, <3>4
    <3>5. CASE s.address # 0 /\ s.address # a
      <4>1. IsTable(table) /\ s.address \in Nat /\ HasSection(s.address)
        BY <3>2, <3>5 DEF IInv
      <4>2. table' = Insert(table, s.address, f)
        BY <3>1, <3>5
      <4> HIDE DEF f, s
      <4>3. \A b \in DOMAIN table : b # s.address => Insert(table, s.address, f)[b] = table[b]
        BY <3>3, <4>1, OthersStay, Zenon
      <4> QED
        BY <3>5, <4>2, <4>3
    <3>6. CASE s.address # 0 /\ s.address = a
      <4>1. \/ table'[a] = table[a]
            \/ /\ table[a].size = 0 /\ f.size # 0
               /\ IF Named(f) THEN table'[a] = f ELSE table'[a] = [table[a] EXCEPT !.size = f.size]
        <5>1. IsTable(table) /\ a \in Nat /\ HasSection(a)
          BY <3>2, <3>6 DEF IInv
        <5>2. table' = Insert(table, a, f)
          BY <3>1, <3>6
        <5> HIDE DEF f, s
        <5> QED
          BY <3>3, <5>1, <5>2, Insertion
      <4>2. table[a] \in Records
        BY DEF IInv, IsTable
      <4>3. [table[a] EXCEPT !.size = f.size].size = f.size
        BY <4>2 DEF Records
      <4> QED
        BY <3>1, <3>6, <4>1, <4>3
    <3> QED
      BY <3>4, <3>5, <3>6
  <2>2. CASE AddPdata
    <3> DEFINE p == Head(pdata)
               f == OfRecord(p)
    <3>1. /\ phase = "symbols" /\ pdata # <<>>
          /\ table' = IF Skipped(p) THEN table ELSE Insert(table, p.begin, f)
      BY <2>2 DEF AddPdata
    <3>2. p \in [begin : Nat, end : Nat]
      BY <3>1, TakenFrom DEF IInv, SeedInv
    <3>3. CASE Skipped(p)
      BY <3>1, <3>3
    <3>4. CASE ~Skipped(p)
      <4>1. f \in Records /\ ~Named(f) /\ p.begin \in Nat /\ HasSection(p.begin)
        BY <3>2, <3>4 DEF Records, OfRecord, AllNames, Skipped, Named, Generated
      <4>2. table[a] \in Records /\ IsTable(table)
        BY DEF IInv, IsTable
      <4>3. [table[a] EXCEPT !.size = f.size].size = f.size
        BY <4>2 DEF Records
      <4> HIDE DEF f, p
      <4>4. \/ table'[a] = table[a]
            \/ /\ table[a].size = 0 /\ f.size # 0 /\ table'[a] = [table[a] EXCEPT !.size = f.size]
        <5>1. table' = Insert(table, p.begin, f)
          BY <3>1, <3>4
        <5>2. CASE a # p.begin
          <6>1. \A b \in DOMAIN table : b # p.begin => Insert(table, p.begin, f)[b] = table[b]
            BY <4>1, <4>2, OthersStay, Zenon
          <6> QED
            BY <5>1, <5>2, <6>1
        <5>3. CASE a = p.begin
          BY <4>1, <4>2, <5>1, <5>3, Insertion
        <5> QED
          BY <5>2, <5>3
      <4> QED
        BY <4>3, <4>4
    <3> QED
      BY <3>3, <3>4
  <2>3. CASE AddEntry
    BY <2>3, EntryInserted DEF AddEntry
  <2>4. CASE EndDiscovery
    BY <2>4 DEF EndDiscovery
  <2>5. CASE DiscoverCalls
    <3> DEFINE new == NewCalls(Head(queue))
    <3>1. /\ phase = "discover" /\ queue # <<>>
          /\ table' = [b \in DOMAIN table \cup new |-> IF b \in new THEN OfCall ELSE table[b]]
      BY <2>5 DEF DiscoverCalls
    <3>2. known = DOMAIN table /\ queue \in Seq(known)
      BY <3>1 DEF IInv, SearchInv
    <3>3. Head(queue) \in DOMAIN table
      BY <3>1, <3>2
    <3>4. a \notin new
      BY <3>2, <3>3, NewCallsFacts
    <3> HIDE DEF new
    <3> QED
      BY <3>1, <3>4
  <2>6. CASE InferSizes
    <3>1. phase = "sizes" /\ table'[a] = IF table[a].size # 0 THEN table[a]
                                         ELSE [table[a] EXCEPT !.size = InferredSize(a)]
      BY <2>6 DEF InferSizes
    <3>2. CASE table[a].size # 0
      BY <3>1, <3>2
    <3>3. CASE table[a].size = 0
      <4>1. InferredSize(a) \in Nat \ {0}
        BY <3>1, Inferred DEF IInv
      <4>2. table[a] \in Records
        BY DEF IInv, IsTable
      <4>3. table'[a] = [table[a] EXCEPT !.size = InferredSize(a)] /\ table'[a].size = InferredSize(a)
        BY <3>1, <3>3, <4>2 DEF Records
      <4> QED
        BY <3>3, <4>1, <4>3
    <3> QED
      BY <3>2, <3>3
  <2> QED
    BY <2>1, <2>2, <2>3, <2>4, <2>5, <2>6 DEF Next
<1> HIDE DEF Sticks
<1>2. Discovering /\ [AnyNext]_all => Discovering' /\ [Sticks]_vars
  BY <1>1, DiscoveringSteps
<1>3. AnySpec => [][Sticks]_vars
  BY DiscoveringInit, <1>2, PTL DEF AnySpec
<1> QED
  BY <1>3 DEF NamesStick, Sticks

-----------------------------------------------------------------------------
\* Each class of a file of any size is printed with its own methods, under the numbers
\* and with the code that the compiler gave them, or the file is refused
\* (DexFile::parse, parse_class_data, render_class).
THEOREM DexReadBack == AnySpec => []ClassesReadBack
<1> DEFINE Inv == engine = "dex" => DexInv
<1>1. AnyInit => Inv
  BY DexInit, InputAssumption DEF AnyInit
<1>2. Inv /\ [AnyNext]_all => Inv'
  <2> SUFFICES ASSUME Inv, [AnyNext]_all, engine' = "dex"
               PROVE  DexInv'
    OBVIOUS
  <2>1. engine = "dex" /\ [DexFile!Next]_(DexFile!vars)
    BY DEF AnyNext, Read, Discover, all, reader, DexFile!vars
  <2>2. DexInv
    BY <2>1
  <2> QED
    BY <2>1, <2>2, DexSteps, InputAssumption
<1>3. Inv => ClassesReadBack
  BY DexShows, InputAssumption DEF ClassesReadBack
<1> QED
  BY <1>1, <1>2, <1>3, PTL DEF AnySpec

\* A class file of any size, with any constants before its names and any attributes
\* around its code, prints the members and bodies that were compiled, or it is rejected
\* because it is cut off or contradicts itself (parse_constant_pool, decompile_class).
THEOREM ClassIsReadBack == AnySpec => []ClassReadsBack
<1> DEFINE Inv == engine = "jvm-class" => ClassInv
<1>1. AnyInit => Inv
  BY JvmInit, InputAssumption DEF AnyInit
<1>2. Inv /\ [AnyNext]_all => Inv'
  <2> SUFFICES ASSUME Inv, [AnyNext]_all, engine' = "jvm-class"
               PROVE  ClassInv'
    OBVIOUS
  <2>1. engine = "jvm-class" /\ [Class!Next]_(Class!vars)
    BY DEF AnyNext, Read, Discover, all, reader, Class!vars
  <2>2. ClassInv
    BY <2>1
  <2> QED
    BY <2>1, <2>2, JvmSteps
<1>3. Inv => ClassReadsBack
  BY JvmShows DEF ClassReadsBack
<1> QED
  BY <1>1, <1>2, <1>3, PTL DEF AnySpec

\* Each type of an assembly of any size is printed with its own methods, however wide its
\* heaps and indices make the rows of the tables, or a cut assembly is refused
\* (parse_tables, decompile_dotnet).
THEOREM MetadataReadBack == AnySpec => []TypesReadBack
<1> DEFINE Inv == engine = "dotnet" => NetInv
<1>1. AnyInit => Inv
  BY NetInit, InputAssumption DEF AnyInit
<1>2. Inv /\ [AnyNext]_all => Inv'
  <2> SUFFICES ASSUME Inv, [AnyNext]_all, engine' = "dotnet"
               PROVE  NetInv'
    OBVIOUS
  <2>1. engine = "dotnet" /\ [DotNet!Next]_(DotNet!vars)
    BY DEF AnyNext, Read, Discover, all, reader, DotNet!vars
  <2>2. NetInv
    BY <2>1
  <2>3. Wide \in Nat
    BY InputAssumption DEF DotNet!AssembliesAssumption
  <2> QED
    BY <2>1, <2>2, <2>3, NetSteps
<1>3. Inv => TypesReadBack
  <2>1. Wide \in Nat
    BY InputAssumption DEF DotNet!AssembliesAssumption
  <2> QED
    BY <2>1, NetShows DEF TypesReadBack
<1> QED
  BY <1>1, <1>2, <1>3, PTL DEF AnySpec

\* Of a body of any length, of any of the five machines and cut anywhere but in the
\* count of an IL switch, the instructions are printed at the addresses where the
\* assembler put them, and nothing else is (code_text, disassemble_code, disassemble_il).
THEOREM ListingInStep == AnySpec => []InstructionsInStep
<1> DEFINE Inv == engine = "disassembly" => ListingInv
<1>1. AnyInit => Inv
  BY ListingInit, PartsAssumption DEF AnyInit
<1>2. Inv /\ [AnyNext]_all => Inv'
  <2> SUFFICES ASSUME Inv, [AnyNext]_all, engine' = "disassembly"
               PROVE  ListingInv'
    OBVIOUS
  <2>1. engine = "disassembly" /\ [Listing!Next]_(Listing!vars)
    BY DEF AnyNext, Read, Discover, all, reader, Listing!vars
  <2>2. ListingInv
    BY <2>1
  <2> QED
    BY <2>1, <2>2, ListingPrints, ListingEnds, ListingStays, PartsAssumption DEF Listing!Next
<1>3. Inv => InstructionsInStep
  BY ListingShows, PartsAssumption DEF InstructionsInStep
<1> QED
  BY <1>1, <1>2, <1>3, PTL DEF AnySpec

\* Whatever its name, as far as no engine claims that, and whatever other texts it
\* holds, a file as its tool writes it is sent to the engine for that tool (detect).
THEOREM FilesSent == AnySpec => []SentToItsEngine
<1> DEFINE Inv == engine = "detect" => DetectInv
<1>1. AnyInit => Inv
  BY DEF AnyInit, Detect!Init, DetectInv
<1>2. Inv /\ [AnyNext]_all => Inv'
  <2> SUFFICES ASSUME Inv, [AnyNext]_all, engine' = "detect"
               PROVE  DetectInv'
    OBVIOUS
  <2>1. engine = "detect" /\ [Detect!Next]_(Detect!vars)
    BY DEF AnyNext, Read, Discover, all, reader, Detect!vars
  <2>2. DetectInv
    BY <2>1
  <2>3. UNCHANGED Detect!vars => DetectInv'
    BY <2>2 DEF DetectInv, Detect!vars
  <2> QED
    BY <2>1, <2>2, <2>3, DetectSteps
<1>3. Inv => SentToItsEngine
  BY DetectShows, PartsAssumption DEF SentToItsEngine
<1> QED
  BY <1>1, <1>2, <1>3, PTL DEF AnySpec

\* An archive is decompiled as a whole or refused as a whole, of however many
\* members and whatever the limits are (decompile_jar, decompile_apk, safe_name).
THEOREM ArchiveWhole == AnySpec => []WholeOrRefused
<1> DEFINE Inv == engine = "archive" => ArchiveInv /\ Output
<1>1. AnyInit => Inv
  BY ArchiveInit, InputAssumption DEF AnyInit
<1>2. Inv /\ [AnyNext]_all => Inv'
  <2> SUFFICES ASSUME Inv, [AnyNext]_all, engine' = "archive"
               PROVE  (ArchiveInv /\ Output)'
    OBVIOUS
  <2>1. engine = "archive" /\ [Jar!Next]_(Jar!vars)
    BY DEF AnyNext, Read, Discover, all, reader, Jar!vars
  <2>2. ArchiveInv /\ Output
    BY <2>1
  <2> QED
    BY <2>1, <2>2, ArchiveSteps, InputAssumption
<1>3. Inv => WholeOrRefused
  BY ArchiveShows, InputAssumption DEF WholeOrRefused
<1> QED
  BY <1>1, <1>2, <1>3, PTL DEF AnySpec
=============================================================================
