---------------------------- MODULE ReaderProofs ----------------------------
(***************************************************************************)
(* Lemmas about the steps of the readers of Readers, for inputs of every   *)
(* length.  EngineProofs has what follows for Engines.                     *)
(***************************************************************************)
EXTENDS Readers, FiniteSetTheorems, SequenceTheorems, WellFoundedInduction, TLAPS

-----------------------------------------------------------------------------
(***************************************************************************)
(* Numbers, and functions defined by recursion over them.                  *)
(***************************************************************************)
LEMMA Least ==
  ASSUME NEW S \in SUBSET Nat, S # {}
  PROVE  \E a \in S : \A b \in S : a <= b
<1>1. PICK a \in S : \A b \in S : ~(<<b, a>> \in OpToRel(<, Nat))
  BY NatLessThanWellFounded, WFMin
<1>2. \A b \in S : ~(b < a)
  BY <1>1 DEF OpToRel
<1> QED
  BY <1>2

LEMMA Induction ==
  ASSUME NEW S \in SUBSET Nat, 0 \in S, \A n \in S : n + 1 \in S
  PROVE  \A n \in Nat : n \in S
<1> DEFINE Bad == {n \in Nat : n \notin S}
<1>1. ASSUME Bad # {} PROVE FALSE
  <2>1. PICK n \in Bad : \A k \in Bad : n <= k
    BY <1>1, Least
  <2>2. n # 0
    BY <2>1
  <2>3. n - 1 \in Nat /\ n - 1 \notin Bad
    BY <2>1, <2>2
  <2>4. n - 1 \in S /\ (n - 1) + 1 = n
    BY <2>1, <2>3
  <2> QED
    BY <2>1, <2>4
<1> QED
  BY <1>1

\* A step that leads from X to X can be taken any number of times.
IsRun(f, X, first, step, m) ==
  f \in [0 .. m -> X] /\ f[0] = first /\ \A n \in 1 .. m : f[n] = step[<<n, f[n - 1]>>]

LEMMA Iterated ==
  ASSUME NEW X, NEW first \in X, NEW step \in [Nat \X X -> X], NEW m \in Nat
  PROVE  \E f : IsRun(f, X, first, step, m)
<1> DEFINE Steps(f, k) == f[0] = first /\ \A n \in 1 .. k : f[n] = step[<<n, f[n - 1]>>]
           Good == {k \in Nat : \E f \in [0 .. k -> X] : Steps(f, k)}
<1>1. 0 \in Good
  <2> DEFINE f == [n \in 0 .. 0 |-> first]
  <2>1. f \in [0 .. 0 -> X] /\ Steps(f, 0)
    OBVIOUS
  <2> QED
    BY <2>1
<1>2. ASSUME NEW k \in Nat, NEW f \in [0 .. k -> X], Steps(f, k)
      PROVE  \E g \in [0 .. k + 1 -> X] : Steps(g, k + 1)
  <2> DEFINE x == step[<<k + 1, f[k]>>]
             g == [n \in 0 .. k + 1 |-> IF n = k + 1 THEN x ELSE f[n]]
  <2>1. k \in 0 .. k /\ f[k] \in X /\ <<k + 1, f[k]>> \in Nat \X X
    OBVIOUS
  <2>2. x \in X
    BY <2>1
  <2>3. \A n \in 0 .. k + 1 : n = k + 1 \/ n \in 0 .. k
    OBVIOUS
  <2> HIDE DEF x
  <2>4. g \in [0 .. k + 1 -> X]
    BY <2>2, <2>3
  <2>5. 0 \in 0 .. k + 1 /\ 0 # k + 1
    OBVIOUS
  <2>6. g[0] = first
    BY <1>2, <2>5
  <2>7. ASSUME NEW n \in 1 .. k + 1
        PROVE  g[n] = step[<<n, g[n - 1]>>]
    <3>1. n \in 0 .. k + 1 /\ n - 1 \in 0 .. k + 1 /\ n - 1 # k + 1
      OBVIOUS
    <3>2. g[n - 1] = f[n - 1]
      BY <3>1
    <3>3. CASE n = k + 1
      <4>1. n - 1 = k
        BY <3>3
      <4>2. g[n] = x
        BY <3>1, <3>3
      <4> QED
        BY <3>2, <3>3, <4>1, <4>2 DEF x
    <3>4. CASE n # k + 1
      <4>1. n \in 1 .. k
        BY <3>4
      <4>2. g[n] = f[n]
        BY <3>1, <3>4
      <4>3. f[n] = step[<<n, f[n - 1]>>]
        BY <1>2, <4>1
      <4> QED
        BY <3>2, <4>2, <4>3
    <3> QED
      BY <3>3, <3>4
  <2> HIDE DEF g
  <2> QED
    BY <2>4, <2>6, <2>7
<1>3. Good \in SUBSET Nat
  OBVIOUS
<1>4. \A k \in Nat : k \in Good => k + 1 \in Good
  <2> SUFFICES ASSUME NEW k \in Nat, NEW f \in [0 .. k -> X], Steps(f, k)
               PROVE  k + 1 \in Good
    OBVIOUS
  <2>1. \E g \in [0 .. k + 1 -> X] : Steps(g, k + 1)
    BY <1>2
  <2> HIDE DEF Steps
  <2> QED
    BY <2>1
<1>5. m \in Good
  <2> HIDE DEF Good
  <2> QED
    BY <1>1, <1>3, <1>4, Induction
<1> QED
  BY <1>5 DEF IsRun

-----------------------------------------------------------------------------
(***************************************************************************)
(* Dex.  All of a class are its methods in the order of its data; Base is  *)
(* what the number of the m + 1st of them is stored as a difference from.  *)
(***************************************************************************)
All(c)     == DexFile!Listed(c)
Base(c, m) == IF m = 0 \/ m = Len(c.direct) THEN 0 ELSE All(c)[m]
Whole(c)   == 4 + 2 * c.fields + 3 * Len(All(c))

\* Where a sequence that is put together has the elements of its parts.
Join(X, c, s, t) ==
  /\ c \in Seq(X) /\ Len(c) = Len(s) + Len(t)
  /\ \A i \in 1 .. Len(s) : c[i] = s[i]
  /\ \A i \in 1 .. Len(t) : c[Len(s) + i] = t[i]

LEMMA Concatenated ==
  ASSUME NEW X, NEW s \in Seq(X), NEW t \in Seq(X), NEW c, c = s \o t
  PROVE  Join(X, c, s, t)
<1>1. Len(s) \in Nat /\ Len(t) \in Nat
  OBVIOUS
<1>2. /\ c \in Seq(X) /\ Len(c) = Len(s) + Len(t)
      /\ \A i \in 1 .. Len(s) + Len(t) : c[i] = IF i <= Len(s) THEN s[i] ELSE t[i - Len(s)]
  BY ConcatProperties
<1>3. ASSUME NEW i \in 1 .. Len(s) PROVE c[i] = s[i]
  BY <1>1, <1>2
<1>4. ASSUME NEW i \in 1 .. Len(t) PROVE c[Len(s) + i] = t[i]
  <2>1. Len(s) + i \in 1 .. Len(s) + Len(t) /\ ~(Len(s) + i <= Len(s)) /\ (Len(s) + i) - Len(s) = i
    BY <1>1
  <2> QED
    BY <1>2, <2>1
<1> QED
  BY <1>2, <1>3, <1>4 DEF Join

LEMMA ClassParts ==
  ASSUME NEW c \in DexFile!Compiled
  PROVE  /\ c.fields \in Nat /\ c.direct \in Seq(Nat) /\ c.virtual \in Seq(Nat)
         /\ Len(c.direct) \in Nat /\ Len(c.virtual) \in Nat
         /\ All(c) \in Seq(Nat) /\ Len(All(c)) = Len(c.direct) + Len(c.virtual)
         /\ \A i \in 1 .. Len(c.direct) : All(c)[i] = c.direct[i]
         /\ \A i \in 1 .. Len(c.virtual) : All(c)[Len(c.direct) + i] = c.virtual[i]
         /\ Len(All(c)) \in Nat /\ Whole(c) \in Nat
<1>1. c.fields \in Nat /\ c.direct \in Seq(Nat) /\ c.virtual \in Seq(Nat)
  BY DEF DexFile!Compiled
<1>2. Len(c.direct) \in Nat /\ Len(c.virtual) \in Nat
  BY <1>1
<1>3. /\ All(c) \in Seq(Nat) /\ Len(All(c)) = Len(c.direct) + Len(c.virtual)
      /\ \A i \in 1 .. Len(c.direct) : All(c)[i] = c.direct[i]
      /\ \A i \in 1 .. Len(c.virtual) : All(c)[Len(c.direct) + i] = c.virtual[i]
  <2> DEFINE d == c.direct
             v == c.virtual
  <2>1. d \in Seq(Nat) /\ v \in Seq(Nat) /\ All(c) = d \o v
    BY <1>1 DEF All, DexFile!Listed
  <2> HIDE DEF d, v
  <2>2. Join(Nat, All(c), d, v)
    BY <2>1, Concatenated
  <2> QED
    BY <2>2 DEF Join, d, v
<1> DEFINE f == c.fields
           n == Len(All(c))
<1>4. f \in Nat /\ n \in Nat
  <2>1. All(c) \in Seq(Nat)
    BY <1>3
  <2> QED
    BY <1>1, <2>1
<1>5. Whole(c) = 4 + 2 * f + 3 * n
  BY DEF Whole
<1> HIDE DEF f, n
<1>6. Whole(c) \in Nat
  BY <1>4, <1>5
<1> QED
  BY <1>1, <1>2, <1>3, <1>4, <1>6 DEF n

\* The numbers of a list, three for each method.
LEMMA EncodedIs ==
  ASSUME NEW numbers \in Seq(Nat)
  PROVE  /\ DexFile!Encoded(numbers) \in Seq(Int) /\ Len(DexFile!Encoded(numbers)) = 3 * Len(numbers)
         /\ \A m \in 0 .. Len(numbers) - 1 :
              /\ DexFile!Encoded(numbers)[3 * m + 1] =
                   IF m = 0 THEN numbers[1] ELSE numbers[m + 1] - numbers[m]
              /\ DexFile!Encoded(numbers)[3 * m + 3] = 16 * numbers[m + 1]
<1> DEFINE E == DexFile!Encoded(numbers)
           At(k) == LET i == (k + 2) \div 3
                    IN  CASE k % 3 = 1 -> IF i = 1 THEN numbers[1] ELSE numbers[i] - numbers[i - 1]
                          [] k % 3 = 2 -> 1
                          [] k % 3 = 0 -> 16 * numbers[i]
<1>1. Len(numbers) \in Nat /\ \A i \in 1 .. Len(numbers) : numbers[i] \in Nat
  OBVIOUS
<1>2. E = [k \in 1 .. 3 * Len(numbers) |-> At(k)]
  BY DEF DexFile!Encoded
<1>3. ASSUME NEW k \in 1 .. 3 * Len(numbers) PROVE At(k) \in Int
  <2> DEFINE i == (k + 2) \div 3
  <2>1. i \in 1 .. Len(numbers) /\ k % 3 \in {0, 1, 2}
    BY <1>1
  <2>2. numbers[i] \in Nat /\ (i # 1 => numbers[i - 1] \in Nat)
    <3>1. i # 1 => i - 1 \in 1 .. Len(numbers)
      BY <1>1, <2>1
    <3> QED
      BY <1>1, <2>1, <3>1
  <2> HIDE DEF i
  <2>3. At(k) = CASE k % 3 = 1 -> IF i = 1 THEN numbers[1] ELSE numbers[i] - numbers[i - 1]
                  [] k % 3 = 2 -> 1
                  [] k % 3 = 0 -> 16 * numbers[i]
    BY DEF i
  <2> HIDE DEF At
  <2> QED
    BY <2>1, <2>2, <2>3
<1> HIDE DEF At, E
<1>4. E \in Seq(Int) /\ Len(E) = 3 * Len(numbers)
  <2>1. 3 * Len(numbers) \in Nat
    BY <1>1
  <2> QED
    BY <1>2, <1>3, <2>1
<1>5. ASSUME NEW m \in 0 .. Len(numbers) - 1
      PROVE  /\ E[3 * m + 1] = IF m = 0 THEN numbers[1] ELSE numbers[m + 1] - numbers[m]
             /\ E[3 * m + 3] = 16 * numbers[m + 1]
  <2>1. /\ 3 * m + 1 \in 1 .. 3 * Len(numbers) /\ 3 * m + 3 \in 1 .. 3 * Len(numbers)
        /\ ((3 * m + 1) + 2) \div 3 = m + 1 /\ ((3 * m + 3) + 2) \div 3 = m + 1
        /\ (3 * m + 1) % 3 = 1 /\ (3 * m + 3) % 3 = 0 /\ (m + 1) - 1 = m /\ (m + 1 = 1 <=> m = 0)
    BY <1>1
  <2>2. E[3 * m + 1] = At(3 * m + 1) /\ E[3 * m + 3] = At(3 * m + 3)
    BY <1>2, <2>1
  <2>3. At(3 * m + 1) = IF m = 0 THEN numbers[1] ELSE numbers[m + 1] - numbers[m]
    <3> DEFINE k == 3 * m + 1
    <3>1. k % 3 = 1 /\ (k + 2) \div 3 = m + 1
      BY <2>1
    <3> HIDE DEF k
    <3>2. At(k) = IF m + 1 = 1 THEN numbers[1] ELSE numbers[m + 1] - numbers[(m + 1) - 1]
      BY <3>1 DEF At
    <3> QED
      BY <2>1, <3>2 DEF k
  <2>4. At(3 * m + 3) = 16 * numbers[m + 1]
    BY <2>1 DEF At
  <2> QED
    BY <2>2, <2>3, <2>4
<1> QED
  BY <1>4, <1>5 DEF E

\* The data of a class: a head of four numbers, two for each field, and three for each
\* method; without the last number where the file is cut.
LEMMA ClassDataIs ==
  ASSUME NEW p \in Programs, p.cut \in BOOLEAN, NEW c \in DexFile!Compiled
  PROVE  LET data == DexFile!DataOf(p, c)
         IN  /\ data = <<>> <=> c.fields = 0 /\ Len(All(c)) = 0
             /\ DexFile!ClassData(c) = <<>> <=> c.fields = 0 /\ Len(All(c)) = 0
             /\ data \in Seq(Int) /\ Len(data) \in Nat
             /\ data # <<>> =>
                  /\ Len(data) = IF p.cut THEN Whole(c) - 1 ELSE Whole(c)
                  /\ data[1] = c.fields /\ data[2] = 0
                  /\ data[3] = Len(c.direct) /\ data[4] = Len(c.virtual)
                  /\ \A m \in 0 .. Len(All(c)) - 1 :
                       LET k == 5 + 2 * c.fields + 3 * m
                       IN  /\ k <= Len(data) => data[k] = All(c)[m + 1] - Base(c, m)
                           /\ k + 2 <= Len(data) => data[k + 2] = 16 * All(c)[m + 1]
<1> DEFINE f  == c.fields
           d  == c.direct
           v  == c.virtual
           nd == Len(c.direct)
           nv == Len(c.virtual)
           n  == Len(All(c))
           head == <<f, 0, nd, nv>>
           field == [k \in 1 .. 2 * f |-> 2]
           whole == head \o field \o DexFile!Encoded(d) \o DexFile!Encoded(v)
           data  == DexFile!DataOf(p, c)
<1>1. /\ f \in Nat /\ d \in Seq(Nat) /\ v \in Seq(Nat) /\ nd \in Nat /\ nv \in Nat
      /\ n = nd + nv /\ Whole(c) = 4 + 2 * f + 3 * n /\ Whole(c) \in Nat
      /\ nd = Len(d) /\ nv = Len(v)
      /\ \A i \in 1 .. nd : All(c)[i] = d[i]
      /\ \A i \in 1 .. nv : All(c)[nd + i] = v[i]
  BY ClassParts DEF Whole
<1> HIDE DEF f, d, v, nd, nv, n
<1>0. f \in Nat /\ nd \in Nat /\ nv \in Nat /\ n = nd + nv
  BY <1>1
<1>2. head \in Seq(Int) /\ Len(head) = 4 /\ head[1] = f /\ head[2] = 0 /\ head[3] = nd /\ head[4] = nv
  BY <1>1
<1> HIDE DEF head
<1>3. field \in Seq(Int) /\ Len(field) = 2 * f
  <2>1. 2 * f \in Nat
    BY <1>1
  <2> QED
    BY <2>1
<1> HIDE DEF field
<1> DEFINE ed == DexFile!Encoded(d)
           ev == DexFile!Encoded(v)
<1>4. /\ ed \in Seq(Int) /\ Len(ed) = 3 * nd
      /\ \A m \in 0 .. nd - 1 :
           /\ ed[3 * m + 1] = IF m = 0 THEN d[1] ELSE d[m + 1] - d[m]
           /\ ed[3 * m + 3] = 16 * d[m + 1]
  BY <1>1, EncodedIs
<1>5. /\ ev \in Seq(Int) /\ Len(ev) = 3 * nv
      /\ \A m \in 0 .. nv - 1 :
           /\ ev[3 * m + 1] = IF m = 0 THEN v[1] ELSE v[m + 1] - v[m]
           /\ ev[3 * m + 3] = 16 * v[m + 1]
  BY <1>1, EncodedIs
<1>6. whole = ((head \o field) \o ed) \o ev
  OBVIOUS
<1> HIDE DEF ed, ev, whole
<1> DEFINE first == head \o field
           most == first \o ed
<1>7. /\ first \in Seq(Int) /\ Len(first) = 4 + 2 * f
      /\ \A i \in 1 .. 4 : first[i] = head[i]
  <2>1. Join(Int, first, head, field)
    BY <1>2, <1>3, Concatenated
  <2> QED
    BY <1>2, <1>3, <2>1 DEF Join
<1> HIDE DEF first
<1>8. /\ most \in Seq(Int) /\ Len(most) = 4 + 2 * f + 3 * nd
      /\ \A i \in 1 .. 4 + 2 * f : most[i] = first[i]
      /\ \A i \in 1 .. 3 * nd : most[(4 + 2 * f) + i] = ed[i]
  <2>1. Join(Int, most, first, ed)
    BY <1>4, <1>7, Concatenated
  <2> QED
    BY <1>4, <1>7, <2>1 DEF Join
<1>9. whole = most \o ev
  BY <1>6 DEF first
<1> HIDE DEF most
<1>10. /\ whole \in Seq(Int) /\ Len(whole) = (4 + 2 * f + 3 * nd) + 3 * nv
       /\ \A i \in 1 .. 4 + 2 * f + 3 * nd : whole[i] = most[i]
       /\ \A i \in 1 .. 3 * nv : whole[(4 + 2 * f + 3 * nd) + i] = ev[i]
  <2>1. Join(Int, whole, most, ev)
    BY <1>5, <1>8, <1>9, Concatenated
  <2> QED
    BY <1>5, <1>8, <2>1 DEF Join
<1>11. Len(whole) = Whole(c)
  BY <1>1, <1>10
<1>12. whole[1] = f /\ whole[2] = 0 /\ whole[3] = nd /\ whole[4] = nv
  <2>1. ASSUME NEW i \in 1 .. 4 PROVE whole[i] = head[i]
    <3>1. i \in 1 .. 4 + 2 * f /\ i \in 1 .. 4 + 2 * f + 3 * nd
      BY <1>1
    <3> QED
      BY <1>7, <1>8, <1>10, <3>1
  <2> QED
    BY <1>2, <2>1
<1>13. ASSUME NEW m \in 0 .. n - 1
       PROVE  LET k == 5 + 2 * f + 3 * m
              IN  /\ k \in 1 .. Len(whole) /\ k + 2 \in 1 .. Len(whole)
                  /\ whole[k] = All(c)[m + 1] - Base(c, m)
                  /\ whole[k + 2] = 16 * All(c)[m + 1]
  <2> DEFINE k == 5 + 2 * f + 3 * m
  <2>1. m \in Nat /\ m < n
    BY <1>1
  <2>2. k \in 1 .. Len(whole) /\ k + 2 \in 1 .. Len(whole)
    <3>1. Len(whole) = 4 + 2 * f + 3 * n
      BY <1>0, <1>10
    <3> QED
      BY <1>0, <2>1, <3>1
  <2>3. Base(c, m) = IF m = 0 \/ m = nd THEN 0 ELSE All(c)[m]
    BY DEF Base, nd
  <2>4. CASE m < nd
    <3>1. /\ 3 * m + 1 \in 1 .. 3 * nd /\ 3 * m + 3 \in 1 .. 3 * nd /\ m \in 0 .. nd - 1
          /\ k = (4 + 2 * f) + (3 * m + 1) /\ k + 2 = (4 + 2 * f) + (3 * m + 3)
          /\ k \in 1 .. 4 + 2 * f + 3 * nd /\ k + 2 \in 1 .. 4 + 2 * f + 3 * nd
      BY <1>1, <2>1, <2>4
    <3> HIDE DEF k
    <3>2. whole[k] = most[k] /\ whole[k + 2] = most[k + 2]
      BY <1>10, <3>1
    <3>3. most[k] = ed[3 * m + 1] /\ most[k + 2] = ed[3 * m + 3]
      BY <1>8, <3>1
    <3>4. m + 1 \in 1 .. nd /\ (m # 0 => m \in 1 .. nd) /\ m # nd
      BY <1>1, <2>1, <2>4
    <3>5. All(c)[m + 1] = d[m + 1] /\ (m # 0 => All(c)[m] = d[m]) /\ (m = 0 => m + 1 = 1)
      BY <1>1, <3>4
    <3>6. d[m + 1] \in Nat
      BY <1>1, <3>4
    <3>7. whole[k] = All(c)[m + 1] - Base(c, m)
      <4>1. CASE m = 0
        <5>1. ed[3 * m + 1] = d[m + 1]
          BY <1>4, <3>1, <4>1
        <5>2. Base(c, m) = 0
          BY <2>3, <4>1
        <5> QED
          BY <3>2, <3>3, <3>5, <3>6, <5>1, <5>2
      <4>2. CASE m # 0
        <5>1. ed[3 * m + 1] = d[m + 1] - d[m]
          BY <1>4, <3>1, <4>2
        <5>2. Base(c, m) = d[m]
          BY <2>3, <3>4, <3>5, <4>2
        <5> QED
          BY <3>2, <3>3, <3>5, <5>1, <5>2
      <4> QED
        BY <4>1, <4>2
    <3>8. whole[k + 2] = 16 * All(c)[m + 1]
      BY <1>4, <3>1, <3>2, <3>3, <3>5
    <3> QED
      BY <2>2, <3>7, <3>8 DEF k
  <2>5. ASSUME NEW j \in 0 .. nv - 1, m = nd + j
        PROVE  whole[k] = All(c)[m + 1] - Base(c, m) /\ whole[k + 2] = 16 * All(c)[m + 1]
    <3>1. /\ 3 * j + 1 \in 1 .. 3 * nv /\ 3 * j + 3 \in 1 .. 3 * nv
          /\ k = (4 + 2 * f + 3 * nd) + (3 * j + 1) /\ k + 2 = (4 + 2 * f + 3 * nd) + (3 * j + 3)
      BY <1>0, <2>1, <2>5
    <3>2. j + 1 \in 1 .. nv /\ (j # 0 => j \in 1 .. nv) /\ m + 1 = nd + (j + 1)
          /\ (j = 0 => j + 1 = 1) /\ (j = 0 <=> m = nd) /\ (m = 0 => m = nd)
      BY <1>0, <2>1, <2>5
    <3> HIDE DEF k
    <3>3. whole[k] = ev[3 * j + 1] /\ whole[k + 2] = ev[3 * j + 3]
      BY <1>10, <3>1
    <3>4. All(c)[m + 1] = v[j + 1] /\ (j # 0 => All(c)[m] = v[j])
      BY <1>1, <2>5, <3>2
    <3>5. v[j + 1] \in Nat
      BY <1>1, <3>2
    <3>6. whole[k] = All(c)[m + 1] - Base(c, m)
      <4>1. CASE j = 0
        BY <1>5, <2>3, <3>2, <3>3, <3>4, <3>5, <4>1
      <4>2. CASE j # 0
        BY <1>5, <2>3, <3>2, <3>3, <3>4, <3>5, <4>2
      <4> QED
        BY <4>1, <4>2
    <3>7. whole[k + 2] = 16 * All(c)[m + 1]
      BY <1>5, <3>1, <3>3, <3>4
    <3> QED
      BY <3>6, <3>7 DEF k
  <2>6. m < nd \/ (m - nd \in 0 .. nv - 1 /\ m = nd + (m - nd))
    BY <1>0, <2>1
  <2> QED
    BY <2>2, <2>4, <2>5, <2>6
<1>14. DexFile!ClassData(c) = IF f = 0 /\ n = 0 THEN <<>> ELSE whole
  <2>1. c.fields + Len(c.direct) + Len(c.virtual) = 0 <=> f = 0 /\ n = 0
    <3>1. f + nd + nv = 0 <=> f = 0 /\ n = 0
      BY <1>1
    <3> QED
      BY <3>1 DEF f, nd, nv
  <2>2. DexFile!ClassData(c) = IF c.fields + Len(c.direct) + Len(c.virtual) = 0 THEN <<>> ELSE whole
    BY DEF DexFile!ClassData, whole, head, field, f, d, v, nd, nv
  <2> QED
    BY <2>1, <2>2
<1>15. whole # <<>> /\ Len(whole) \in Nat /\ Len(whole) >= 4
  BY <1>1, <1>10
<1>16. CASE f = 0 /\ n = 0
  <2>1. DexFile!ClassData(c) = <<>> /\ data = <<>>
    BY <1>14, <1>16 DEF DexFile!DataOf
  <2>2. data \in Seq(Int) /\ Len(data) \in Nat
    BY <2>1
  <2> QED
    BY <1>16, <2>1, <2>2 DEF f, n
<1>17. CASE ~(f = 0 /\ n = 0)
  <2>1. DexFile!ClassData(c) = whole /\ DexFile!ClassData(c) # <<>>
    BY <1>14, <1>15, <1>17
  <2>2. data = IF p.cut THEN SubSeq(whole, 1, Len(whole) - 1) ELSE whole
    BY <2>1 DEF DexFile!DataOf
  <2>3. Whole(c) > 4
    BY <1>1, <1>17
  <2>4. /\ data \in Seq(Int) /\ Len(data) = IF p.cut THEN Whole(c) - 1 ELSE Whole(c)
        /\ \A i \in 1 .. Len(data) : data[i] = whole[i]
    <3>1. CASE p.cut
      <4> DEFINE s == SubSeq(whole, 1, Len(whole) - 1)
      <4>1. Len(whole) - 1 \in Nat /\ Len(whole) \in Nat
        BY <1>11, <1>15
      <4>2. /\ s \in Seq(Int) /\ Len(s) = Len(whole) - 1
            /\ \A i \in 1 .. Len(whole) - 1 : s[i] = whole[i]
        BY <1>10, <4>1
      <4> QED
        BY <1>11, <2>2, <3>1, <4>2
    <3>2. CASE ~p.cut
      BY <1>10, <1>11, <2>2, <3>2
    <3> QED
      BY <3>1, <3>2
  <2>5. Len(data) \in Nat /\ Len(data) >= 4 /\ data # <<>>
    BY <1>1, <2>3, <2>4
  <2>6. data[1] = f /\ data[2] = 0 /\ data[3] = nd /\ data[4] = nv
    <3>1. \A i \in 1 .. 4 : i \in 1 .. Len(data)
      BY <2>5
    <3> QED
      BY <1>12, <2>4, <3>1
  <2>7. ASSUME NEW m \in 0 .. n - 1
        PROVE  LET k == 5 + 2 * f + 3 * m
               IN  /\ k <= Len(data) => data[k] = All(c)[m + 1] - Base(c, m)
                   /\ k + 2 <= Len(data) => data[k + 2] = 16 * All(c)[m + 1]
    <3> DEFINE k == 5 + 2 * f + 3 * m
    <3>1. /\ k \in 1 .. Len(whole) /\ k + 2 \in 1 .. Len(whole)
          /\ whole[k] = All(c)[m + 1] - Base(c, m) /\ whole[k + 2] = 16 * All(c)[m + 1]
      BY <1>13
    <3> HIDE DEF k
    <3>2. (k <= Len(data) => k \in 1 .. Len(data)) /\ (k + 2 <= Len(data) => k + 2 \in 1 .. Len(data))
      BY <1>15, <2>5, <3>1
    <3> QED
      BY <2>4, <3>1, <3>2 DEF k
  <2> HIDE DEF data
  <2> QED
    BY <1>17, <2>1, <2>4, <2>5, <2>6, <2>7 DEF f, n, nd, nv, data
<1> QED
  BY <1>16, <1>17

\* What is to be printed of a class grows by a method at a time, as far as it is the class's own.
IsOwnOf(p, c, x) == x < Len(p.methods) /\ p.methods[x + 1] = c.type

LEMMA OwnIs ==
  ASSUME NEW p, NEW c \in DexFile!Compiled
  PROVE  LET own == DexFile!Own(p, c)
         IN  /\ own[0] = <<>> /\ \A n \in 0 .. Len(All(c)) : own[n] \in Seq(Nat)
             /\ \A n \in 1 .. Len(All(c)) :
                  own[n] = IF IsOwnOf(p, c, All(c)[n]) THEN Append(own[n - 1], All(c)[n]) ELSE own[n - 1]
<1> DEFINE N == Len(All(c))
           After(n, before) == IF IsOwnOf(p, c, All(c)[n]) THEN Append(before, All(c)[n]) ELSE before
           F(own) == [n \in 0 .. N |-> IF n = 0 THEN <<>> ELSE After(n, own[n - 1])]
           step == [x \in Nat \X Seq(Nat) |-> IF x[1] \in 1 .. N THEN After(x[1], x[2]) ELSE x[2]]
           own == DexFile!Own(p, c)
<1>1. N \in Nat /\ \A n \in 1 .. N : All(c)[n] \in Nat
  <2>1. All(c) \in Seq(Nat)
    BY ClassParts
  <2> QED
    BY <2>1
<1>2. ASSUME NEW n \in 1 .. N, NEW before \in Seq(Nat)
      PROVE  After(n, before) \in Seq(Nat)
  BY <1>1
<1>3. own = CHOOSE f : f = F(f)
  BY DEF DexFile!Own, All, IsOwnOf
<1> HIDE DEF After, own, N
<1>4. step \in [Nat \X Seq(Nat) -> Seq(Nat)]
  <2>1. ASSUME NEW x \in Nat \X Seq(Nat)
        PROVE  (IF x[1] \in 1 .. N THEN After(x[1], x[2]) ELSE x[2]) \in Seq(Nat)
    BY <1>2
  <2> QED
    BY <2>1
<1>5. <<>> \in Seq(Nat)
  OBVIOUS
<1> HIDE DEF step
<1>6. PICK f \in [0 .. N -> Seq(Nat)] : f[0] = <<>> /\ \A n \in 1 .. N : f[n] = step[<<n, f[n - 1]>>]
  <2>1. \E f : IsRun(f, Seq(Nat), <<>>, step, N)
    BY <1>1, <1>4, <1>5, Iterated
  <2> QED
    BY <2>1 DEF IsRun
<1>7. ASSUME NEW n \in 1 .. N
      PROVE  n - 1 \in 0 .. N /\ n \in 0 .. N /\ f[n - 1] \in Seq(Nat) /\ f[n] = After(n, f[n - 1])
  <2>1. n - 1 \in 0 .. N /\ n \in Nat
    BY <1>1
  <2>2. f[n - 1] \in Seq(Nat) /\ <<n, f[n - 1]>> \in Nat \X Seq(Nat)
    BY <2>1
  <2>3. step[<<n, f[n - 1]>>] = After(n, f[n - 1])
    BY <2>2 DEF step
  <2> QED
    BY <1>6, <2>1, <2>2, <2>3
<1>8. f = F(f)
  <2>1. ASSUME NEW n \in 0 .. N
        PROVE  f[n] = IF n = 0 THEN <<>> ELSE After(n, f[n - 1])
    <3>1. CASE n = 0
      BY <1>6, <3>1
    <3>2. CASE n # 0
      <4>1. n \in 1 .. N
        BY <1>1, <3>2
      <4> QED
        BY <1>7, <3>2, <4>1
    <3> QED
      BY <3>1, <3>2
  <2> QED
    BY <2>1
<1>9. own = F(own)
  <2> HIDE DEF F
  <2> QED
    BY <1>3, <1>8
<1>10. own[0] = <<>> /\ \A n \in 1 .. N : own[n] = After(n, own[n - 1])
  <2>1. 0 \in 0 .. N /\ \A n \in 1 .. N : n \in 0 .. N /\ n # 0
    BY <1>1
  <2>2. \A n \in 0 .. N : own[n] = IF n = 0 THEN <<>> ELSE After(n, own[n - 1])
    BY <1>9
  <2> QED
    BY <2>1, <2>2
<1> DEFINE S == {k \in Nat : k \in 0 .. N => own[k] \in Seq(Nat)}
<1>11. S \in SUBSET Nat /\ 0 \in S
  BY <1>5, <1>10
<1>12. ASSUME NEW k \in S PROVE k + 1 \in S
  <2>1. CASE k + 1 \in 0 .. N
    <3>1. k + 1 \in 1 .. N /\ k \in 0 .. N /\ (k + 1) - 1 = k
      BY <1>1, <2>1
    <3>2. own[k] \in Seq(Nat)
      BY <3>1
    <3>3. own[k + 1] = After(k + 1, own[k])
      BY <1>10, <3>1
    <3>4. own[k + 1] \in Seq(Nat)
      BY <1>2, <3>1, <3>2, <3>3
    <3> QED
      BY <3>4
  <2> QED
    BY <2>1
<1>13. \A n \in Nat : n \in S
  <2> HIDE DEF S
  <2> QED
    BY <1>11, <1>12, Induction
<1>14. \A n \in 0 .. N : own[n] \in Seq(Nat)
  BY <1>1, <1>13
<1> QED
  BY <1>10, <1>14 DEF After, N, own

\* How the methods of a sequence of numbers are printed.
MethodsOf(own) == [k \in DOMAIN own |-> [number |-> own[k], code |-> 16 * own[k]]]
Method         == [number : Nat, code : Nat]
Printed(p, c, n) == MethodsOf(DexFile!Own(p, c)[n])

LEMMA MethodsGrow ==
  ASSUME NEW own \in Seq(Nat), NEW x \in Nat
  PROVE  /\ MethodsOf(own) \in Seq(Method)
         /\ MethodsOf(Append(own, x)) = Append(MethodsOf(own), [number |-> x, code |-> 16 * x])
<1> DEFINE m == [number |-> x, code |-> 16 * x]
           l == Len(own)
<1>1. l \in Nat /\ DOMAIN own = 1 .. l /\ \A k \in 1 .. l : own[k] \in Nat
  OBVIOUS
<1>2. MethodsOf(own) \in Seq(Method) /\ Len(MethodsOf(own)) = l
  <2>1. MethodsOf(own) \in [1 .. l -> Method]
    BY <1>1 DEF MethodsOf, Method
  <2> QED
    BY <1>1, <2>1
<1>3. /\ Append(own, x) \in Seq(Nat) /\ DOMAIN Append(own, x) = 1 .. l + 1
      /\ Append(own, x)[l + 1] = x /\ \A k \in 1 .. l : Append(own, x)[k] = own[k]
  OBVIOUS
<1>4. m \in Method
  BY DEF Method
<1> HIDE DEF m, l
<1>5. /\ DOMAIN Append(MethodsOf(own), m) = 1 .. l + 1 /\ Append(MethodsOf(own), m)[l + 1] = m
      /\ \A k \in 1 .. l : Append(MethodsOf(own), m)[k] = MethodsOf(own)[k]
      /\ Append(MethodsOf(own), m) \in Seq(Method) /\ Len(Append(MethodsOf(own), m)) = l + 1
  BY <1>2, <1>4
<1>6. ASSUME NEW k \in 1 .. l + 1
      PROVE  MethodsOf(Append(own, x))[k] = Append(MethodsOf(own), m)[k]
  <2>1. MethodsOf(Append(own, x))[k] = [number |-> Append(own, x)[k], code |-> 16 * Append(own, x)[k]]
    BY <1>3 DEF MethodsOf
  <2>2. CASE k = l + 1
    BY <1>3, <1>5, <2>1, <2>2 DEF m
  <2>3. CASE k # l + 1
    <3>1. k \in 1 .. l
      BY <1>1, <2>3
    <3>2. MethodsOf(own)[k] = [number |-> own[k], code |-> 16 * own[k]]
      BY <1>1, <3>1 DEF MethodsOf
    <3> QED
      BY <1>3, <1>5, <2>1, <3>1, <3>2
  <2> QED
    BY <2>2, <2>3
<1>7. /\ MethodsOf(Append(own, x)) = [k \in 1 .. l + 1 |-> MethodsOf(Append(own, x))[k]]
      /\ Append(MethodsOf(own), m) = [k \in 1 .. l + 1 |-> Append(MethodsOf(own), m)[k]]
  <2>1. MethodsOf(Append(own, x)) = [k \in 1 .. l + 1 |-> MethodsOf(Append(own, x))[k]]
    BY <1>3 DEF MethodsOf
  <2>2. Append(MethodsOf(own), m) = [k \in 1 .. l + 1 |-> Append(MethodsOf(own), m)[k]]
    <3> DEFINE s == Append(MethodsOf(own), m)
    <3>1. s \in Seq(Method) /\ Len(s) = l + 1
      BY <1>5
    <3> HIDE DEF s
    <3>2. s \in [1 .. l + 1 -> Method]
      BY <3>1
    <3> QED
      BY <3>2 DEF s
  <2> QED
    BY <2>1, <2>2
<1> QED
  BY <1>2, <1>6, <1>7 DEF m

\* One more method of a class is printed if it is the class's own.
LEMMA PrintedGrows ==
  ASSUME NEW p, NEW c \in DexFile!Compiled, NEW n \in 0 .. Len(All(c))
  PROVE  /\ Printed(p, c, n) \in Seq(Method) /\ Printed(p, c, 0) = <<>>
         /\ n < Len(All(c)) =>
              LET x == All(c)[n + 1]
              IN  Printed(p, c, n + 1) = IF IsOwnOf(p, c, x)
                                         THEN Append(Printed(p, c, n), [number |-> x, code |-> 16 * x])
                                         ELSE Printed(p, c, n)
<1> DEFINE own == DexFile!Own(p, c)
<1>1. /\ own[0] = <<>> /\ own[n] \in Seq(Nat) /\ Len(All(c)) \in Nat
      /\ \A i \in 1 .. Len(All(c)) : All(c)[i] \in Nat
      /\ \A i \in 1 .. Len(All(c)) :
           own[i] = IF IsOwnOf(p, c, All(c)[i]) THEN Append(own[i - 1], All(c)[i]) ELSE own[i - 1]
  <2>1. All(c) \in Seq(Nat)
    BY ClassParts
  <2>2. /\ own[0] = <<>> /\ own[n] \in Seq(Nat)
        /\ \A i \in 1 .. Len(All(c)) :
             own[i] = IF IsOwnOf(p, c, All(c)[i]) THEN Append(own[i - 1], All(c)[i]) ELSE own[i - 1]
    BY OwnIs
  <2>3. Len(All(c)) \in Nat /\ \A i \in 1 .. Len(All(c)) : All(c)[i] \in Nat
    BY <2>1
  <2> HIDE DEF own
  <2> QED
    BY <2>2, <2>3
<1> HIDE DEF own
<1>2. \A k \in 0 .. Len(All(c)) : Printed(p, c, k) = MethodsOf(own[k])
  BY DEF Printed, own
<1>3. Printed(p, c, n) \in Seq(Method)
  BY <1>1, <1>2, MethodsGrow
<1>4. Printed(p, c, 0) = <<>>
  <2>1. MethodsOf(<<>>) = <<>>
    BY DEF MethodsOf
  <2> QED
    BY <1>1, <1>2, <2>1
<1>5. ASSUME n < Len(All(c))
      PROVE  LET x == All(c)[n + 1]
             IN  Printed(p, c, n + 1) = IF IsOwnOf(p, c, x)
                                        THEN Append(Printed(p, c, n), [number |-> x, code |-> 16 * x])
                                        ELSE Printed(p, c, n)
  <2> DEFINE x == All(c)[n + 1]
  <2>1. n + 1 \in 1 .. Len(All(c)) /\ (n + 1) - 1 = n /\ n + 1 \in 0 .. Len(All(c))
    BY <1>1, <1>5
  <2>2. x \in Nat /\ own[n + 1] = IF IsOwnOf(p, c, x) THEN Append(own[n], x) ELSE own[n]
    BY <1>1, <2>1
  <2> HIDE DEF x
  <2>3. MethodsOf(Append(own[n], x)) = Append(MethodsOf(own[n]), [number |-> x, code |-> 16 * x])
    BY <1>1, <2>2, MethodsGrow
  <2>4. Printed(p, c, n + 1) = MethodsOf(own[n + 1]) /\ Printed(p, c, n) = MethodsOf(own[n])
    BY <1>2, <2>1
  <2> QED
    BY <2>2, <2>3, <2>4 DEF x
<1> QED
  BY <1>3, <1>4, <1>5

Limited(c)  == c.fields <= MaxEntries /\ Len(All(c)) <= MaxEntries
Uncut(p, c) == p.cut => DexFile!ClassData(c) = <<>>
Start(c)    == IF c.fields = 0 /\ Len(All(c)) = 0 THEN 1 ELSE 5

\* Where the reader of a class is after its first m methods.
StandsIn(p, c, m, fr) ==
  /\ fr \in [at : Nat, fields : Nat, lists : Seq(Nat), number : Int]
  /\ fr.fields <= c.fields /\ (fr.fields > 0 => m = 0)
  /\ fr.at = Start(c) + 2 * (c.fields - fr.fields) + 3 * m
  /\ fr.at <= Len(DexFile!DataOf(p, c)) + 1
  /\ \/ m <= Len(c.direct) /\ fr.lists = <<Len(c.direct) - m, Len(c.virtual)>>
     \/ m >= Len(c.direct) /\ fr.lists = <<Len(All(c)) - m>>
  /\ Head(fr.lists) > 0 => fr.number = Base(c, m)

\* A class of the program was read through.
ReadThrough(p, i, o) ==
  LET c == p.classes[i]
  IN  Uncut(p, c) /\ Limited(c) /\ o[i].methods = Printed(p, c, Len(All(c)))

InClass(p, c, o) ==
  \E m \in 0 .. Len(All(c)) : \E fr :
    stack = <<fr>> /\ StandsIn(p, c, m, fr) /\ o[pos].methods = Printed(p, c, m)

Compilation ==
  \E p \in Programs :
    input = [program |-> p, types |-> p.types, methods |-> p.methods, outside |-> p.outside,
             classes |-> [i \in DOMAIN p.classes |->
                            [type |-> p.classes[i].type, data |-> DexFile!DataOf(p, p.classes[i])]]]

DexInv ==
  LET p == input.program
      n == Len(input.classes)
  IN  /\ Compilation
      /\ pos \in 1 .. n + 1
      /\ out \in Seq([type : STRING, methods : Seq(Method)])
      /\ status \in {"tables", "class", "methods", "table", "limit", "end", "summary", "done"}
      /\ status = "tables" => pos = 1 /\ out = <<>>
      /\ status \in {"class", "methods", "summary", "done"} =>
           ~DexFile!TooMany /\ ~input.outside /\ \A i \in 1 .. pos - 1 : ReadThrough(p, i, out)
      /\ status \in {"class", "summary", "done"} => Len(out) = pos - 1
      /\ status \in {"summary", "done"} => pos > n
      /\ status = "methods" =>
           pos <= n /\ Len(out) = pos /\ Limited(p.classes[pos]) /\ InClass(p, p.classes[pos], out)
      /\ status \in {"table", "limit", "end"} => ~DexFile!Sound(p)

LEMMA DexInputs ==
  ASSUME DexFile!ProgramsAssumption, Compilation
  PROVE  LET p == input.program
         IN  /\ MaxEntries \in Nat /\ p \in Programs /\ p.cut \in BOOLEAN
             /\ input.methods = p.methods /\ input.outside = p.outside
             /\ Len(input.classes) \in Nat /\ Len(p.classes) = Len(input.classes)
             /\ DOMAIN p.classes = 1 .. Len(input.classes)
             /\ \A i \in 1 .. Len(input.classes) :
                  /\ p.classes[i] \in DexFile!Compiled
                  /\ input.classes[i].type = p.classes[i].type
                  /\ input.classes[i].data = DexFile!DataOf(p, p.classes[i])
<1>1. PICK p \in Programs :
        input = [program |-> p, types |-> p.types, methods |-> p.methods, outside |-> p.outside,
                 classes |-> [i \in DOMAIN p.classes |->
                                [type |-> p.classes[i].type, data |-> DexFile!DataOf(p, p.classes[i])]]]
  BY DEF Compilation
<1>2. MaxEntries \in Nat /\ p.cut \in BOOLEAN /\ p.classes \in Seq(DexFile!Compiled)
  BY DEF DexFile!ProgramsAssumption
<1>3. /\ input.program = p /\ input.methods = p.methods /\ input.outside = p.outside
      /\ input.classes = [i \in DOMAIN p.classes |->
                            [type |-> p.classes[i].type, data |-> DexFile!DataOf(p, p.classes[i])]]
  BY <1>1
<1> DEFINE cs == p.classes
<1>4. /\ Len(cs) \in Nat /\ DOMAIN cs = 1 .. Len(cs)
      /\ \A i \in 1 .. Len(cs) : cs[i] \in DexFile!Compiled
  BY <1>2
<1> HIDE DEF cs
<1>5. DOMAIN input.classes = 1 .. Len(cs)
  BY <1>3, <1>4 DEF cs
<1>6. Len(input.classes) = Len(cs)
  <2>1. /\ input.classes \in [1 .. Len(cs) -> {input.classes[i] : i \in 1 .. Len(cs)}]
    BY <1>3, <1>4, <1>5 DEF cs
  <2> QED
    BY <1>4, <2>1
<1>7. \A i \in 1 .. Len(cs) : /\ input.classes[i].type = cs[i].type
                              /\ input.classes[i].data = DexFile!DataOf(p, cs[i])
  BY <1>3, <1>4 DEF cs
<1> QED
  BY <1>2, <1>3, <1>4, <1>5, <1>6, <1>7 DEF cs

LEMMA DexInit ==
  ASSUME DexFile!ProgramsAssumption, DexFile!Init
  PROVE  DexInv
<1>1. Compilation /\ pos = 1 /\ out = <<>> /\ status = "tables"
  BY DEF DexFile!Init, Compilation
<1>2. Len(input.classes) \in Nat
  BY <1>1, DexInputs
<1>3. out \in Seq([type : STRING, methods : Seq(Method)])
  BY <1>1
<1> QED
  BY <1>1, <1>2, <1>3 DEF DexInv

\* What stays said while the input stays.
LEMMA SameProgram ==
  ASSUME input' = input
  PROVE  /\ Compilation' = Compilation /\ DexFile!TooMany' = DexFile!TooMany
         /\ DexFile!Sound(input.program)' = DexFile!Sound(input.program)
         /\ \A i : ReadThrough(input.program, i, out)' = ReadThrough(input.program, i, out')
<1>1. Compilation' = Compilation
  BY DEF Compilation
<1>2. DexFile!TooMany' = DexFile!TooMany
  BY DEF DexFile!TooMany
<1>3. DexFile!Sound(input.program)' = DexFile!Sound(input.program)
  BY <1>2 DEF DexFile!Sound
<1>4. \A i : ReadThrough(input.program, i, out)' = ReadThrough(input.program, i, out')
  BY DEF ReadThrough
<1> QED
  BY <1>1, <1>2, <1>3, <1>4

LEMMA DexTables ==
  ASSUME DexInv, DexFile!ProgramsAssumption, DexFile!ParseTables \/ DexFile!BadTable
  PROVE  DexInv'
<1>1. /\ Compilation /\ pos = 1 /\ out = <<>> /\ Len(input.classes) \in Nat
      /\ out \in Seq([type : STRING, methods : Seq(Method)])
  BY DexInputs DEF DexInv, DexFile!ParseTables, DexFile!BadTable
<1>2. input' = input /\ pos' = pos /\ out' = out
  BY DEF DexFile!ParseTables, DexFile!BadTable, DexFile!Fail
<1>3. Compilation' /\ DexFile!TooMany' = DexFile!TooMany
      /\ DexFile!Sound(input.program)' = DexFile!Sound(input.program)
  BY <1>1, <1>2, SameProgram
<1>4. CASE DexFile!ParseTables
  <2>1. status' = "class" /\ ~DexFile!TooMany /\ ~input.outside
    BY <1>4 DEF DexFile!ParseTables
  <2> QED
    BY <1>1, <1>2, <1>3, <2>1 DEF DexInv
<1>5. CASE DexFile!BadTable
  <2>1. status' = "table" /\ (DexFile!TooMany \/ input.outside)
    BY <1>5 DEF DexFile!BadTable, DexFile!Fail
  <2>2. input.outside = input.program.outside
    BY <1>1, DexInputs
  <2>3. ~DexFile!Sound(input.program)
    BY <2>1, <2>2 DEF DexFile!Sound
  <2> QED
    BY <1>1, <1>2, <1>3, <2>1, <2>3 DEF DexInv
<1> QED
  BY <1>4, <1>5

\* The start of a class: its data is empty, or has the counts at its head.
LEMMA ClassBegins ==
  ASSUME DexFile!ProgramsAssumption, NEW p \in Programs, p.cut \in BOOLEAN,
         NEW c \in DexFile!Compiled, MaxEntries \in Nat
  PROVE  LET data == DexFile!DataOf(p, c)
             over == data[1] + data[2] > MaxEntries \/ data[3] + data[4] > MaxEntries
         IN  /\ data = <<>> =>
                  /\ Limited(c)
                  /\ StandsIn(p, c, 0, [at |-> 1, fields |-> 0, lists |-> <<0, 0>>, number |-> 0])
             /\ data # <<>> /\ over => ~Limited(c)
             /\ data # <<>> /\ ~over =>
                  /\ Limited(c)
                  /\ StandsIn(p, c, 0, [at |-> 5, fields |-> data[1] + data[2],
                                        lists |-> <<data[3], data[4]>>, number |-> 0])
<1> DEFINE data == DexFile!DataOf(p, c)
           f == c.fields
           nd == Len(c.direct)
           nv == Len(c.virtual)
           n == Len(All(c))
<1>1. /\ f \in Nat /\ nd \in Nat /\ nv \in Nat /\ n = nd + nv /\ Whole(c) = 4 + 2 * f + 3 * n
  BY ClassParts DEF Whole
<1>2. /\ data = <<>> <=> f = 0 /\ n = 0
      /\ Len(data) \in Nat
      /\ data # <<>> => /\ Len(data) = IF p.cut THEN Whole(c) - 1 ELSE Whole(c)
                        /\ data[1] = f /\ data[2] = 0 /\ data[3] = nd /\ data[4] = nv
  BY ClassDataIs
<1> HIDE DEF data, f, nd, nv, n
<1>3. ASSUME data = <<>>
      PROVE  /\ Limited(c)
             /\ StandsIn(p, c, 0, [at |-> 1, fields |-> 0, lists |-> <<0, 0>>, number |-> 0])
  <2> DEFINE fr == [at |-> 1, fields |-> 0, lists |-> <<0, 0>>, number |-> 0]
  <2>1. f = 0 /\ n = 0 /\ nd = 0 /\ nv = 0
    BY <1>1, <1>2, <1>3
  <2>2. Limited(c)
    BY <2>1 DEF Limited, f, n
  <2>3. fr \in [at : Nat, fields : Nat, lists : Seq(Nat), number : Int]
    <3>1. <<0, 0>> \in Seq(Nat)
      OBVIOUS
    <3> QED
      BY <3>1
  <2>4. /\ fr.at = 1 /\ fr.fields = 0 /\ fr.lists = <<0, 0>> /\ fr.number = 0 /\ Head(fr.lists) = 0
    OBVIOUS
  <2> HIDE DEF fr
  <2>5. Start(c) = 1
    BY <2>1 DEF Start, f, n
  <2>6. fr.at = Start(c) + 2 * (f - fr.fields) + 3 * 0 /\ fr.at <= Len(data) + 1 /\ 0 <= nd
        /\ fr.fields <= f /\ fr.lists = <<nd - 0, nv>>
    BY <1>2, <2>1, <2>4, <2>5
  <2>7. StandsIn(p, c, 0, fr)
    BY <2>3, <2>4, <2>6 DEF StandsIn, data, f, nd, nv
  <2> QED
    BY <2>2, <2>7 DEF fr
<1>4. ASSUME data # <<>>
      PROVE  /\ data[1] + data[2] = f /\ data[3] + data[4] = n
             /\ Limited(c) <=> f <= MaxEntries /\ n <= MaxEntries
  <2>1. Limited(c) <=> f <= MaxEntries /\ n <= MaxEntries
    BY DEF Limited, f, n
  <2>2. data[1] = f /\ data[2] = 0 /\ data[3] = nd /\ data[4] = nv
    BY <1>2, <1>4
  <2>3. f + 0 = f /\ nd + nv = n
    BY <1>1
  <2> QED
    BY <2>1, <2>2, <2>3
<1>5. ASSUME data # <<>>
      PROVE  StandsIn(p, c, 0, [at |-> 5, fields |-> data[1] + data[2],
                                lists |-> <<data[3], data[4]>>, number |-> 0])
  <2> DEFINE fr == [at |-> 5, fields |-> f, lists |-> <<nd, nv>>, number |-> 0]
  <2>1. ~(f = 0 /\ n = 0)
    BY <1>2, <1>5
  <2>2. Start(c) = 5
    BY <2>1 DEF Start, f, n
  <2>3. fr \in [at : Nat, fields : Nat, lists : Seq(Nat), number : Int]
    <3>1. <<nd, nv>> \in Seq(Nat)
      BY <1>1
    <3> QED
      BY <1>1, <3>1
  <2>4. fr.at = 5 /\ fr.fields = f /\ fr.lists = <<nd, nv>> /\ fr.number = 0
    OBVIOUS
  <2>5. 4 <= Len(data)
    BY <1>1, <1>2, <1>5, <2>1
  <2> HIDE DEF fr
  <2>6. fr.at = Start(c) + 2 * (f - fr.fields) + 3 * 0 /\ fr.at <= Len(data) + 1 /\ 0 <= nd
        /\ fr.fields <= f
    <3>1. f - f = 0 /\ 5 = 5 + 2 * 0 + 3 * 0 /\ 5 <= Len(data) + 1 /\ 0 <= nd /\ f <= f
      BY <1>1, <1>2, <2>5
    <3> QED
      BY <2>2, <2>4, <3>1
  <2>7. fr.lists = <<nd - 0, nv>> /\ fr.number = Base(c, 0)
    BY <1>1, <2>4 DEF Base
  <2>8. StandsIn(p, c, 0, fr)
    BY <2>3, <2>6, <2>7 DEF StandsIn, data, f, nd, nv
  <2>9. data[1] + data[2] = f /\ data[3] = nd /\ data[4] = nv
    BY <1>2, <1>4, <1>5
  <2> QED
    BY <2>8, <2>9 DEF fr
<1>6. data # <<>> /\ (data[1] + data[2] > MaxEntries \/ data[3] + data[4] > MaxEntries) => ~Limited(c)
  BY <1>1, <1>4
<1>7. data # <<>> /\ ~(data[1] + data[2] > MaxEntries \/ data[3] + data[4] > MaxEntries) => Limited(c)
  BY <1>1, <1>4
<1> QED
  BY <1>3, <1>5, <1>6, <1>7 DEF data

\* What a step inside or between classes leaves.
LEMMA OtherClasses ==
  ASSUME DexInv, DexFile!ProgramsAssumption, input' = input, status \in {"class", "methods"}
  PROVE  /\ Compilation /\ Compilation' /\ ~DexFile!TooMany' /\ ~input'.outside
         /\ out \in Seq([type : STRING, methods : Seq(Method)]) /\ Len(out) \in Nat
         /\ pos \in 1 .. Len(input.classes) + 1 /\ Len(input.classes) \in Nat
         /\ \A i \in 1 .. pos - 1 : ReadThrough(input.program, i, out)
         /\ DexFile!Sound(input.program)' = DexFile!Sound(input.program)
<1>1. Compilation /\ ~DexFile!TooMany /\ ~input.outside
  BY DEF DexInv
<1>2. Len(input.classes) \in Nat
  BY <1>1, DexInputs
<1>3. Compilation' /\ ~DexFile!TooMany' /\ ~input'.outside
      /\ DexFile!Sound(input.program)' = DexFile!Sound(input.program)
  BY <1>1, SameProgram
<1>4. /\ out \in Seq([type : STRING, methods : Seq(Method)])
      /\ pos \in 1 .. Len(input.classes) + 1
      /\ \A i \in 1 .. pos - 1 : ReadThrough(input.program, i, out)
  BY DEF DexInv
<1>5. Len(out) \in Nat
  BY <1>4
<1> QED
  BY <1>1, <1>2, <1>3, <1>4, <1>5

\* A class read so far stays as it was.
LEMMA ReadKept ==
  ASSUME NEW p, NEW i, NEW o, NEW q, o[i].methods = q[i].methods, ReadThrough(p, i, o)
  PROVE  ReadThrough(p, i, q)
BY DEF ReadThrough

LEMMA DexBegins ==
  ASSUME DexInv, DexFile!ProgramsAssumption, DexFile!BeginClass
  PROVE  DexInv'
<1> DEFINE p == input.program
           c == p.classes[pos]
           n == Len(input.classes)
           T == [type : STRING, methods : Seq(Method)]
           data == DexFile!DataOf(p, c)
<1>1. status = "class" /\ input' = input /\ pos' = pos /\ pos <= n
      /\ out' = Append(out, [type |-> input.classes[pos].type, methods |-> <<>>])
      /\ DexFile!Data = input.classes[pos].data
  BY DEF DexFile!BeginClass, DexFile!Class, DexFile!Data
<1>2. /\ Compilation /\ Compilation' /\ ~DexFile!TooMany' /\ ~input'.outside
      /\ out \in Seq(T) /\ Len(out) = pos - 1
      /\ pos \in 1 .. n + 1 /\ n \in Nat
      /\ \A i \in 1 .. pos - 1 : ReadThrough(p, i, out)
      /\ DexFile!Sound(p)' = DexFile!Sound(p)
  BY <1>1, OtherClasses DEF DexInv
<1>3. pos \in 1 .. n
  BY <1>1, <1>2
<1>4. /\ MaxEntries \in Nat /\ p \in Programs /\ p.cut \in BOOLEAN /\ c \in DexFile!Compiled
      /\ input.classes[pos].type = c.type /\ DexFile!Data = data
      /\ DOMAIN p.classes = 1 .. n
  BY <1>1, <1>2, <1>3, DexInputs
<1> HIDE DEF p, n, data
<1>5. c.type \in STRING
  BY <1>4 DEF DexFile!Compiled
<1>6. /\ out' \in Seq(T) /\ Len(out') = pos /\ out'[pos].methods = <<>>
      /\ \A i \in 1 .. pos - 1 : out'[i] = out[i]
  <2> DEFINE e == [type |-> c.type, methods |-> <<>>]
  <2>1. e \in T /\ e.methods = <<>>
    BY <1>5
  <2>2. out' = Append(out, e)
    BY <1>1, <1>4
  <2> HIDE DEF e, T, c
  <2>3. pos \in Nat /\ pos - 1 \in Nat
    BY <1>2, <1>3
  <2> QED
    BY <1>2, <2>1, <2>2, <2>3
<1>7. \A i \in 1 .. pos - 1 : ReadThrough(p, i, out')
  BY <1>2, <1>6, ReadKept
<1>8. out'[pos].methods = Printed(p, c, 0)
  <2>1. Len(All(c)) \in Nat
    BY <1>4, ClassParts
  <2>2. 0 \in 0 .. Len(All(c))
    BY <2>1
  <2> QED
    BY <1>4, <1>6, <2>2, PrintedGrows
<1> HIDE DEF c
<1>9. ASSUME Limited(c), NEW fr, stack' = <<fr>>, StandsIn(p, c, 0, fr), status' = "methods"
      PROVE  DexInv'
  <2>1. Len(All(c)) \in Nat
    BY <1>4, ClassParts
  <2>2. \E m \in 0 .. Len(All(c)) : \E x :
          stack' = <<x>> /\ StandsIn(p, c, m, x) /\ out'[pos].methods = Printed(p, c, m)
    <3>1. 0 \in 0 .. Len(All(c))
      BY <2>1
    <3> QED
      BY <1>8, <1>9, <3>1
  <2>3. InClass(p, c, out)'
    <3>1. p' = p /\ c' = c
      BY <1>1 DEF p, c
    <3>2. (\A m, x : StandsIn(p, c, m, x)' <=> StandsIn(p, c, m, x)) /\ (\A m : Printed(p, c, m)' = Printed(p, c, m))
      BY <3>1 DEF StandsIn, Printed
    <3>3. All(c)' = All(c)
      BY <3>1 DEF All
    <3> QED
      BY <1>1, <2>2, <3>1, <3>2, <3>3 DEF InClass
  <2>4. /\ \A i \in 1 .. pos' - 1 : ReadThrough(p, i, out)'
    <3>1. \A i : ReadThrough(p, i, out)' = ReadThrough(p, i, out')
      BY <1>1, SameProgram DEF p
    <3> QED
      BY <1>1, <1>7, <3>1
  <2>5. Limited(c)' /\ n' = n
    BY <1>1, <1>9 DEF Limited, All, c, p, n
  <2>6. pos' \in 1 .. n' + 1 /\ pos' <= n' /\ Len(out') = pos' /\ out' \in Seq(T)
    BY <1>1, <1>3, <1>6, <2>5, <1>2
  <2> QED
    BY <1>1, <1>2, <1>9, <2>3, <2>4, <2>5, <2>6 DEF DexInv, p, c, n
<1>10. CASE data = <<>>
  <2>1. stack' = <<[at |-> 1, fields |-> 0, lists |-> <<0, 0>>, number |-> 0]>> /\ status' = "methods"
    BY <1>4, <1>10 DEF DexFile!BeginClass
  <2>2. Limited(c) /\ StandsIn(p, c, 0, [at |-> 1, fields |-> 0, lists |-> <<0, 0>>, number |-> 0])
    BY <1>4, <1>10, ClassBegins DEF data
  <2> QED
    BY <1>9, <2>1, <2>2
<1>11. CASE data # <<>> /\ ~(data[1] + data[2] > MaxEntries \/ data[3] + data[4] > MaxEntries)
  <2>1. /\ stack' = <<[at |-> 5, fields |-> data[1] + data[2], lists |-> <<data[3], data[4]>>, number |-> 0]>>
        /\ status' = "methods"
    BY <1>4, <1>11 DEF DexFile!BeginClass
  <2>2. Limited(c) /\ StandsIn(p, c, 0, [at |-> 5, fields |-> data[1] + data[2],
                                         lists |-> <<data[3], data[4]>>, number |-> 0])
    BY <1>4, <1>11, ClassBegins DEF data
  <2> QED
    BY <1>9, <2>1, <2>2
<1>12. CASE data # <<>> /\ (data[1] + data[2] > MaxEntries \/ data[3] + data[4] > MaxEntries)
  <2>1. status' = "limit"
    BY <1>4, <1>12 DEF DexFile!BeginClass
  <2>2. ~Limited(c)
    BY <1>4, <1>12, ClassBegins DEF data
  <2>3. ~(c.fields <= MaxEntries /\ Len(c.direct) + Len(c.virtual) <= MaxEntries)
    BY <1>4, <2>2, ClassParts DEF Limited
  <2>4. ~DexFile!Sound(p)
    BY <1>3, <1>4, <2>3 DEF DexFile!Sound, c
  <2>5. p' = p /\ n' = n
    BY <1>1 DEF p, n
  <2> QED
    BY <1>1, <1>2, <1>6, <2>1, <2>4, <2>5 DEF DexInv, p, n
<1> QED
  BY <1>10, <1>11, <1>12

\* What the reader of a class has before it.
LEMMA StandsBefore ==
  ASSUME NEW p \in Programs, p.cut \in BOOLEAN, NEW c \in DexFile!Compiled,
         NEW m \in 0 .. Len(All(c)), NEW fr, StandsIn(p, c, m, fr)
  PROVE  /\ fr.at \in Nat /\ fr.fields \in Nat /\ fr.number \in Int /\ m \in Nat
         /\ Len(fr.lists) = 2 => /\ m <= Len(c.direct)
                                 /\ fr.lists = <<Len(c.direct) - m, Len(c.virtual)>>
                                 /\ Head(fr.lists) = Len(c.direct) - m
         /\ Len(fr.lists) # 2 => /\ m >= Len(c.direct)
                                 /\ fr.lists = <<Len(All(c)) - m>> /\ Head(fr.lists) = Len(All(c)) - m
         /\ Head(fr.lists) > 0 => m < Len(All(c))
<1> DEFINE nd == Len(c.direct)
           nv == Len(c.virtual)
           n == Len(All(c))
<1>1. /\ fr \in [at : Nat, fields : Nat, lists : Seq(Nat), number : Int]
      /\ \/ m <= nd /\ fr.lists = <<nd - m, nv>>
         \/ m >= nd /\ fr.lists = <<n - m>>
  BY DEF StandsIn
<1>2. nd \in Nat /\ nv \in Nat /\ n \in Nat /\ n = nd + nv
  BY ClassParts
<1> HIDE DEF nd, nv, n
<1>3. m \in Nat
  BY <1>2 DEF n
<1>4. CASE m <= nd /\ fr.lists = <<nd - m, nv>>
  <2>1. Len(fr.lists) = 2 /\ Head(fr.lists) = nd - m
    BY <1>4
  <2>2. nd - m > 0 => m < n
    BY <1>2, <1>3
  <2> QED
    BY <1>1, <1>3, <1>4, <2>1, <2>2 DEF nd, nv, n
<1>5. CASE m >= nd /\ fr.lists = <<n - m>>
  <2>1. Len(fr.lists) = 1 /\ Head(fr.lists) = n - m
    BY <1>5
  <2>2. n - m > 0 => m < n
    BY <1>2, <1>3
  <2> QED
    BY <1>1, <1>3, <1>5, <2>1, <2>2 DEF nd, nv, n
<1> QED
  BY <1>1, <1>4, <1>5

LEMMA FieldSkipped ==
  ASSUME NEW p \in Programs, p.cut \in BOOLEAN, NEW c \in DexFile!Compiled,
         NEW m \in 0 .. Len(All(c)), NEW fr, StandsIn(p, c, m, fr),
         fr.fields > 0, fr.at + 1 <= Len(DexFile!DataOf(p, c))
  PROVE  StandsIn(p, c, m, [fr EXCEPT !.fields = @ - 1, !.at = @ + 2])
<1> DEFINE f == c.fields
           s == Start(c)
           l == Len(DexFile!DataOf(p, c))
           x == [fr EXCEPT !.fields = @ - 1, !.at = @ + 2]
<1>1. /\ fr \in [at : Nat, fields : Nat, lists : Seq(Nat), number : Int]
      /\ fr.fields <= f /\ m = 0
      /\ fr.at = s + 2 * (f - fr.fields) + 3 * m
  BY DEF StandsIn
<1>2. f \in Nat /\ l \in Nat /\ s \in {1, 5}
  <2>1. f \in Nat
    BY ClassParts
  <2>2. l \in Nat
    BY ClassDataIs
  <2> QED
    BY <2>1, <2>2 DEF Start
<1>3. /\ x \in [at : Nat, fields : Nat, lists : Seq(Nat), number : Int]
      /\ x.at = fr.at + 2 /\ x.fields = fr.fields - 1 /\ x.lists = fr.lists /\ x.number = fr.number
  <2>1. fr.at + 2 \in Nat /\ fr.fields - 1 \in Nat
    BY <1>1
  <2> QED
    BY <1>1, <2>1
<1> DEFINE a == fr.at
           g == fr.fields
<1>4. a \in Nat /\ g \in Nat /\ g > 0 /\ g <= f /\ a + 1 <= l /\ a = s + 2 * (f - g) + 3 * m
  BY <1>1
<1> HIDE DEF f, s, l, a, g, x
<1>5. a + 2 = s + 2 * (f - (g - 1)) + 3 * m /\ a + 2 <= l + 1 /\ g - 1 <= f
  BY <1>1, <1>2, <1>4
<1>6. /\ x.fields <= f /\ x.at = s + 2 * (f - x.fields) + 3 * m /\ x.at <= l + 1
  BY <1>3, <1>5 DEF a, g
<1>7. /\ \/ m <= Len(c.direct) /\ x.lists = <<Len(c.direct) - m, Len(c.virtual)>>
         \/ m >= Len(c.direct) /\ x.lists = <<Len(All(c)) - m>>
      /\ Head(x.lists) > 0 => x.number = Base(c, m)
  BY <1>3 DEF StandsIn
<1> QED
  BY <1>1, <1>3, <1>6, <1>7 DEF StandsIn, f, s, l, x

LEMMA MethodRead ==
  ASSUME NEW p \in Programs, p.cut \in BOOLEAN, NEW c \in DexFile!Compiled,
         NEW m \in 0 .. Len(All(c)), NEW fr, StandsIn(p, c, m, fr),
         fr.fields = 0, Head(fr.lists) > 0, fr.at + 2 <= Len(DexFile!DataOf(p, c))
  PROVE  LET data   == DexFile!DataOf(p, c)
             number == fr.number + data[fr.at]
         IN  /\ m < Len(All(c)) /\ number = All(c)[m + 1] /\ data[fr.at + 2] = 16 * All(c)[m + 1]
             /\ StandsIn(p, c, m + 1, [fr EXCEPT !.lists[1] = @ - 1, !.at = @ + 3, !.number = number])
<1> DEFINE f == c.fields
           n == Len(All(c))
           nd == Len(c.direct)
           nv == Len(c.virtual)
           data == DexFile!DataOf(p, c)
           l == Len(data)
           a == fr.at
           number == fr.number + data[a]
           x == [fr EXCEPT !.lists[1] = @ - 1, !.at = @ + 3, !.number = number]
<1>1. /\ a \in Nat /\ fr.number \in Int /\ m \in Nat /\ m < n
      /\ Len(fr.lists) = 2 => m <= nd /\ fr.lists = <<nd - m, nv>> /\ Head(fr.lists) = nd - m
      /\ Len(fr.lists) # 2 => m >= nd /\ fr.lists = <<n - m>> /\ Head(fr.lists) = n - m
  BY StandsBefore
<1>2. f \in Nat /\ n \in Nat /\ nd \in Nat /\ nv \in Nat /\ n = nd + nv /\ All(c) \in Seq(Nat)
  BY ClassParts
<1>3. /\ fr \in [at : Nat, fields : Nat, lists : Seq(Nat), number : Int]
      /\ a = Start(c) + 2 * (f - 0) + 3 * m /\ fr.number = Base(c, m)
  BY DEF StandsIn
<1>4. \A i \in 1 .. n : All(c)[i] \in Nat
  <2>1. All(c) \in Seq(Nat)
    BY <1>2
  <2> QED
    BY <2>1
<1>5. /\ data = <<>> <=> f = 0 /\ n = 0
      /\ l \in Nat
      /\ data # <<>> => \A i \in 0 .. n - 1 :
           LET j == 5 + 2 * f + 3 * i
           IN  /\ j <= l => data[j] = All(c)[i + 1] - Base(c, i)
               /\ j + 2 <= l => data[j + 2] = 16 * All(c)[i + 1]
  BY ClassDataIs
<1>6. Start(c) = IF f = 0 /\ n = 0 THEN 1 ELSE 5
  BY DEF Start
<1>7. Base(c, m) = (IF m = 0 \/ m = nd THEN 0 ELSE All(c)[m])
      /\ Base(c, m + 1) = (IF m + 1 = 0 \/ m + 1 = nd THEN 0 ELSE All(c)[m + 1])
  BY DEF Base
<1>8. a + 2 <= l
  OBVIOUS
<1>9. x = [at |-> a + 3, fields |-> 0, lists |-> [fr.lists EXCEPT ![1] = @ - 1], number |-> number]
  <2>1. fr = [at |-> a, fields |-> 0, lists |-> fr.lists, number |-> fr.number]
    BY <1>3
  <2> DEFINE ls == fr.lists
             b == fr.number
  <2>2. fr = [at |-> a, fields |-> 0, lists |-> ls, number |-> b]
        /\ x = [fr EXCEPT !.lists[1] = @ - 1, !.at = @ + 3, !.number = number]
    BY <2>1
  <2> HIDE DEF a, number, x, ls, b
  <2>3. DOMAIN x = {"at", "fields", "lists", "number"}
    BY <2>2
  <2>4. x = [i \in {"at", "fields", "lists", "number"} |-> x[i]]
    BY <2>2
  <2>5. x.at = a + 3 /\ x.fields = 0 /\ x.number = number /\ x.lists = [ls EXCEPT ![1] = @ - 1]
    BY <2>2
  <2>6. x = [at |-> x.at, fields |-> x.fields, lists |-> x.lists, number |-> x.number]
    BY <2>4
  <2> QED
    BY <2>5, <2>6 DEF ls
<1> HIDE DEF data, l, f, n, nd, nv, x, a, number
<1>10. m \in Nat /\ n \in Nat /\ f \in Nat /\ nd \in Nat /\ nv \in Nat /\ n = nd + nv /\ m < n
  BY <1>1, <1>2
<1>11. m \in 0 .. n - 1 /\ ~(f = 0 /\ n = 0) /\ m + 1 \in 1 .. n /\ (m # 0 => m \in 1 .. n)
       /\ m + 1 \in 0 .. n
  BY <1>10
<1>12. All(c)[m + 1] \in Nat /\ Base(c, m) \in Nat
  BY <1>4, <1>7, <1>11
<1>13. a = 5 + 2 * f + 3 * m /\ a \in Nat
  <2>1. a = 5 + 2 * (f - 0) + 3 * m
    BY <1>3, <1>6, <1>11
  <2> QED
    BY <1>10, <2>1
<1>14. data[a] = All(c)[m + 1] - Base(c, m) /\ data[a + 2] = 16 * All(c)[m + 1]
  <2>1. a <= l
    BY <1>5, <1>8, <1>13
  <2> QED
    BY <1>5, <1>8, <1>11, <1>13, <2>1
<1>15. number = All(c)[m + 1]
  BY <1>3, <1>12, <1>14 DEF number
<1>16. ASSUME Len(fr.lists) = 2
       PROVE  /\ m + 1 <= nd /\ x.lists = <<nd - (m + 1), nv>> /\ x.lists \in Seq(Nat)
              /\ Head(x.lists) > 0 => x.number = Base(c, m + 1)
  <2>1. fr.lists = <<nd - m, nv>> /\ nd - m > 0
    BY <1>1, <1>16
  <2>2. m + 1 <= nd /\ (nd - m) - 1 = nd - (m + 1) /\ nd - (m + 1) \in Nat
    BY <1>10, <2>1
  <2>3. [<<nd - m, nv>> EXCEPT ![1] = @ - 1] = <<(nd - m) - 1, nv>>
    OBVIOUS
  <2>4. x.lists = <<nd - (m + 1), nv>>
    BY <1>9, <2>1, <2>2, <2>3
  <2>5. x.lists \in Seq(Nat) /\ Head(x.lists) = nd - (m + 1)
    BY <1>10, <2>2, <2>4
  <2>6. nd - (m + 1) > 0 => m + 1 # nd /\ m + 1 # 0
    BY <1>10
  <2> QED
    BY <1>7, <1>9, <1>15, <2>2, <2>4, <2>5, <2>6
<1>17. ASSUME Len(fr.lists) # 2
       PROVE  /\ m + 1 >= nd /\ x.lists = <<n - (m + 1)>> /\ x.lists \in Seq(Nat)
              /\ Head(x.lists) > 0 => x.number = Base(c, m + 1)
  <2>1. fr.lists = <<n - m>> /\ m >= nd
    BY <1>1, <1>17
  <2>2. m + 1 >= nd /\ (n - m) - 1 = n - (m + 1) /\ n - (m + 1) \in Nat /\ m + 1 # nd /\ m + 1 # 0
    BY <1>10, <2>1
  <2>3. [<<n - m>> EXCEPT ![1] = @ - 1] = <<(n - m) - 1>>
    OBVIOUS
  <2>4. x.lists = <<n - (m + 1)>>
    BY <1>9, <2>1, <2>2, <2>3
  <2>5. x.lists \in Seq(Nat)
    BY <2>2, <2>4
  <2> QED
    BY <1>7, <1>9, <1>15, <2>2, <2>4, <2>5
<1>18. x.at = Start(c) + 2 * (f - x.fields) + 3 * (m + 1) /\ x.at <= l + 1 /\ x.fields <= f
  <2>1. a + 3 = 5 + 2 * (f - 0) + 3 * (m + 1) /\ a + 3 <= l + 1 /\ 0 <= f
    BY <1>5, <1>8, <1>10, <1>13
  <2> QED
    BY <1>6, <1>9, <1>11, <2>1
<1>19. x \in [at : Nat, fields : Nat, lists : Seq(Nat), number : Int]
  <2>1. a + 3 \in Nat /\ number \in Int /\ x.lists \in Seq(Nat)
    BY <1>12, <1>13, <1>15, <1>16, <1>17
  <2> QED
    BY <1>9, <2>1
<1>20. x.fields > 0 => m + 1 = 0
  BY <1>9
<1>21. StandsIn(p, c, m + 1, x)
  BY <1>16, <1>17, <1>18, <1>19, <1>20 DEF StandsIn, f, n, nd, nv, l, data
<1> QED
  BY <1>10, <1>14, <1>15, <1>21 DEF x, n, data, a, number

LEMMA ListEnded ==
  ASSUME NEW p \in Programs, p.cut \in BOOLEAN, NEW c \in DexFile!Compiled,
         NEW m \in 0 .. Len(All(c)), NEW fr, StandsIn(p, c, m, fr),
         fr.fields = 0, Head(fr.lists) = 0, Len(fr.lists) = 2
  PROVE  StandsIn(p, c, m, [fr EXCEPT !.lists = Tail(@), !.number = 0])
<1> DEFINE n == Len(All(c))
           nd == Len(c.direct)
           nv == Len(c.virtual)
           x == [fr EXCEPT !.lists = Tail(@), !.number = 0]
<1>1. m \in Nat /\ m <= nd /\ fr.lists = <<nd - m, nv>> /\ Head(fr.lists) = nd - m
  BY StandsBefore
<1>2. n \in Nat /\ nd \in Nat /\ nv \in Nat /\ n = nd + nv
  BY ClassParts
<1> HIDE DEF n, nd, nv
<1>3. m = nd /\ n - m = nv
  BY <1>1, <1>2
<1>4. Tail(fr.lists) = <<nv>> /\ <<nv>> \in Seq(Nat)
  BY <1>1, <1>2
<1>5. /\ fr \in [at : Nat, fields : Nat, lists : Seq(Nat), number : Int]
      /\ fr.fields <= c.fields /\ (fr.fields > 0 => m = 0)
      /\ fr.at = Start(c) + 2 * (c.fields - fr.fields) + 3 * m
      /\ fr.at <= Len(DexFile!DataOf(p, c)) + 1
  BY DEF StandsIn
<1>6. /\ x \in [at : Nat, fields : Nat, lists : Seq(Nat), number : Int]
      /\ x.at = fr.at /\ x.fields = fr.fields /\ x.lists = <<nv>> /\ x.number = 0
  <2> DEFINE t == Tail(fr.lists)
  <2>1. t = <<nv>> /\ t \in Seq(Nat)
    BY <1>4
  <2>3. x = [fr EXCEPT !.lists = t, !.number = 0]
    OBVIOUS
  <2> HIDE DEF t, x
  <2>2. /\ x \in [at : Nat, fields : Nat, lists : Seq(Nat), number : Int]
        /\ x.at = fr.at /\ x.fields = fr.fields /\ x.lists = t /\ x.number = 0
    <3>1. fr \in [at : Nat, fields : Nat, lists : Seq(Nat), number : Int]
      BY <1>5
    <3>2. t \in Seq(Nat)
      BY <2>1
    <3>3. x.at = fr.at /\ x.fields = fr.fields /\ x.lists = t /\ x.number = 0
      BY <2>3, <3>1
    <3>4. x = [at |-> x.at, fields |-> x.fields, lists |-> x.lists, number |-> x.number]
      <4>1. DOMAIN x = {"at", "fields", "lists", "number"}
        BY <2>3, <3>1
      <4>2. x = [i \in {"at", "fields", "lists", "number"} |-> x[i]]
        BY <2>3, <3>1
      <4> QED
        BY <4>2
    <3>5. x.at \in Nat /\ x.fields \in Nat /\ x.number \in Int
      BY <3>1, <3>3
    <3>6. x.lists \in Seq(Nat)
      BY <3>2, <3>3
    <3> QED
      BY <3>3, <3>4, <3>5, <3>6
  <2> QED
    BY <2>1, <2>2
<1>7. Base(c, m) = 0
  BY <1>3 DEF Base, nd
<1>8. m >= nd /\ x.lists = <<n - m>> /\ x.number = Base(c, m)
  BY <1>2, <1>3, <1>6, <1>7
<1> HIDE DEF x
<1> QED
  BY <1>5, <1>6, <1>8 DEF StandsIn, n, nd, x

LEMMA ClassEnded ==
  ASSUME NEW p \in Programs, p.cut \in BOOLEAN, NEW c \in DexFile!Compiled,
         NEW m \in 0 .. Len(All(c)), NEW fr, StandsIn(p, c, m, fr),
         fr.fields = 0, fr.lists = << 0 >>
  PROVE  m = Len(All(c)) /\ Uncut(p, c)
<1> DEFINE f == c.fields
           n == Len(All(c))
           data == DexFile!DataOf(p, c)
           l == Len(data)
<1>1. m \in Nat /\ (Len(fr.lists) # 2 => fr.lists = <<n - m>>)
  BY StandsBefore
<1>2. f \in Nat /\ n \in Nat /\ Whole(c) = 4 + 2 * f + 3 * n
  BY ClassParts DEF Whole
<1>3. fr.at = Start(c) + 2 * (f - 0) + 3 * m /\ fr.at <= l + 1
  BY DEF StandsIn
<1>4. /\ DexFile!ClassData(c) = <<>> <=> f = 0 /\ n = 0
      /\ data = <<>> <=> f = 0 /\ n = 0
      /\ l \in Nat
      /\ data # <<>> => l = IF p.cut THEN Whole(c) - 1 ELSE Whole(c)
  BY ClassDataIs
<1>5. Start(c) = IF f = 0 /\ n = 0 THEN 1 ELSE 5
  BY DEF Start
<1>6. n - m = 0
  <2>1. Len(fr.lists) = 1
    OBVIOUS
  <2>2. fr.lists = <<n - m>>
    BY <1>1, <2>1
  <2> HIDE DEF n
  <2> QED
    BY <2>2
<1> HIDE DEF f, n, data, l
<1>7. m = n
  BY <1>1, <1>2, <1>6
<1>8. ASSUME ~(f = 0 /\ n = 0) PROVE ~p.cut
  <2>1. 5 + 2 * f + 3 * n <= l + 1
    BY <1>2, <1>3, <1>5, <1>7, <1>8
  <2>2. ~(l = Whole(c) - 1)
    BY <1>2, <1>4, <2>1
  <2> QED
    BY <1>4, <1>8, <2>2
<1> QED
  BY <1>4, <1>7, <1>8 DEF Uncut, n

LEMMA DataEnded ==
  ASSUME NEW p \in Programs, p.cut \in BOOLEAN, NEW c \in DexFile!Compiled,
         NEW m \in 0 .. Len(All(c)), NEW fr, StandsIn(p, c, m, fr),
         \/ fr.fields > 0 /\ fr.at + 1 > Len(DexFile!DataOf(p, c))
         \/ fr.fields = 0 /\ Head(fr.lists) > 0 /\ fr.at + 2 > Len(DexFile!DataOf(p, c))
  PROVE  ~Uncut(p, c)
<1> DEFINE f == c.fields
           n == Len(All(c))
           data == DexFile!DataOf(p, c)
           l == Len(data)
           g == fr.fields
           a == fr.at
<1>1. m \in Nat /\ g \in Nat /\ (Head(fr.lists) > 0 => m < n)
  BY StandsBefore
<1>2. f \in Nat /\ n \in Nat /\ Whole(c) = 4 + 2 * f + 3 * n
  BY ClassParts DEF Whole
<1>3. a = Start(c) + 2 * (f - g) + 3 * m /\ g <= f /\ (g > 0 => m = 0)
  BY DEF StandsIn
<1>4. /\ DexFile!ClassData(c) = <<>> <=> f = 0 /\ n = 0
      /\ data = <<>> <=> f = 0 /\ n = 0
      /\ l \in Nat
      /\ data # <<>> => l = IF p.cut THEN Whole(c) - 1 ELSE Whole(c)
  BY ClassDataIs
<1>5. Start(c) = IF f = 0 /\ n = 0 THEN 1 ELSE 5
  BY DEF Start
<1>6. \/ g > 0 /\ a + 1 > l
      \/ g = 0 /\ m < n /\ a + 2 > l
  BY <1>1
<1> HIDE DEF f, n, data, l, g, a
<1>7. ~(f = 0 /\ n = 0)
  BY <1>1, <1>2, <1>3, <1>6
<1>8. a = 5 + 2 * (f - g) + 3 * m
  BY <1>3, <1>5, <1>7
<1>9. l < 4 + 2 * f + 3 * n
  <2>1. CASE g > 0 /\ a + 1 > l
    <3>1. a = 5 + 2 * (f - g)
      BY <1>1, <1>2, <1>3, <1>8, <2>1
    <3>2. a + 1 <= 4 + 2 * f
      BY <1>1, <1>2, <2>1, <3>1
    <3> QED
      BY <1>1, <1>2, <1>4, <2>1, <3>1, <3>2
  <2>2. CASE g = 0 /\ m < n /\ a + 2 > l
    BY <1>1, <1>2, <1>4, <1>8, <2>2
  <2> QED
    BY <1>6, <2>1, <2>2
<1>10. p.cut
  BY <1>2, <1>4, <1>7, <1>9
<1> QED
  BY <1>4, <1>7, <1>10 DEF Uncut

\* The state within a class, and what it takes to stay there.
LEMMA InsideClass ==
  ASSUME DexInv, DexFile!ProgramsAssumption, status = "methods"
  PROVE  LET p == input.program
             c == p.classes[pos]
         IN  /\ MaxEntries \in Nat /\ p \in Programs /\ p.cut \in BOOLEAN /\ c \in DexFile!Compiled
             /\ pos \in 1 .. Len(input.classes) /\ Len(out) = pos /\ Limited(c)
             /\ DexFile!Data = DexFile!DataOf(p, c) /\ DexFile!Class.type = c.type
             /\ input.methods = p.methods /\ DOMAIN p.classes = 1 .. Len(input.classes)
             /\ \E m \in 0 .. Len(All(c)) : \E fr :
                  /\ stack = <<fr>> /\ DexFile!Frame = fr
                  /\ StandsIn(p, c, m, fr) /\ out[pos].methods = Printed(p, c, m)
<1> DEFINE p == input.program
           c == p.classes[pos]
<1>1. /\ Compilation /\ pos \in 1 .. Len(input.classes) + 1 /\ pos <= Len(input.classes)
      /\ Len(out) = pos /\ Limited(c) /\ InClass(p, c, out)
  BY DEF DexInv
<1>2. Len(input.classes) \in Nat
  BY <1>1, DexInputs
<1>3. pos \in 1 .. Len(input.classes)
  BY <1>1, <1>2
<1>4. /\ MaxEntries \in Nat /\ p \in Programs /\ p.cut \in BOOLEAN /\ c \in DexFile!Compiled
      /\ input.classes[pos].data = DexFile!DataOf(p, c) /\ input.classes[pos].type = c.type
      /\ input.methods = p.methods /\ DOMAIN p.classes = 1 .. Len(input.classes)
  BY <1>1, <1>3, DexInputs
<1>5. DexFile!Data = DexFile!DataOf(p, c) /\ DexFile!Class.type = c.type
  BY <1>4 DEF DexFile!Data, DexFile!Class
<1>6. PICK m \in 0 .. Len(All(c)) : \E fr :
        stack = <<fr>> /\ StandsIn(p, c, m, fr) /\ out[pos].methods = Printed(p, c, m)
  BY <1>1 DEF InClass
<1>7. PICK fr : stack = <<fr>> /\ StandsIn(p, c, m, fr) /\ out[pos].methods = Printed(p, c, m)
  BY <1>6
<1>8. DexFile!Frame = fr
  BY <1>7 DEF DexFile!Frame
<1> HIDE DEF p, c
<1>9. \E k \in 0 .. Len(All(c)) : \E f :
        /\ stack = <<f>> /\ DexFile!Frame = f
        /\ StandsIn(p, c, k, f) /\ out[pos].methods = Printed(p, c, k)
  BY <1>7, <1>8
<1> QED
  BY <1>1, <1>3, <1>4, <1>5, <1>9 DEF p, c

LEMMA StaysInside ==
  ASSUME DexInv, DexFile!ProgramsAssumption, status = "methods", status' = "methods",
         input' = input, pos' = pos,
         out' \in Seq([type : STRING, methods : Seq(Method)]), Len(out') = pos,
         \A i \in 1 .. pos - 1 : out'[i].methods = out[i].methods,
         NEW m \in 0 .. Len(All(input.program.classes[pos])), NEW fr, stack' = <<fr>>,
         StandsIn(input.program, input.program.classes[pos], m, fr),
         out'[pos].methods = Printed(input.program, input.program.classes[pos], m)
  PROVE  DexInv'
<1> DEFINE p == input.program
           c == p.classes[pos]
           n == Len(input.classes)
<1>1. /\ Compilation' /\ ~DexFile!TooMany' /\ ~input'.outside
      /\ n \in Nat /\ \A i \in 1 .. pos - 1 : ReadThrough(p, i, out)
  BY OtherClasses
<1>2. pos \in 1 .. n /\ Limited(c)
  BY InsideClass
<1> HIDE DEF p, c, n
<1>3. p' = p /\ c' = c /\ n' = n
  BY DEF p, c, n
<1>4. \A i \in 1 .. pos' - 1 : ReadThrough(p, i, out)'
  <2>1. \A i : ReadThrough(p, i, out)' = ReadThrough(p, i, out')
    BY SameProgram DEF p
  <2>2. \A i \in 1 .. pos - 1 : ReadThrough(p, i, out')
    BY <1>1, ReadKept
  <2> QED
    BY <2>1, <2>2
<1>5. InClass(p, c, out)'
  <2>1. \E k \in 0 .. Len(All(c)) : \E x :
          stack' = <<x>> /\ StandsIn(p, c, k, x) /\ out'[pos].methods = Printed(p, c, k)
    BY DEF p, c
  <2>2. (\A k, x : StandsIn(p, c, k, x)' <=> StandsIn(p, c, k, x)) /\ (\A k : Printed(p, c, k)' = Printed(p, c, k))
    BY <1>3 DEF StandsIn, Printed
  <2>3. All(c)' = All(c)
    BY <1>3 DEF All
  <2> QED
    BY <1>3, <2>1, <2>2, <2>3 DEF InClass
<1>6. Limited(c)'
  BY <1>2, <1>3 DEF Limited, All
<1>7. pos' \in 1 .. n' + 1 /\ pos' <= n' /\ Len(out') = pos'
  BY <1>1, <1>2, <1>3
<1> QED
  BY <1>1, <1>4, <1>5, <1>6, <1>7 DEF DexInv, p, c, n

LEMMA DexFields ==
  ASSUME DexInv, DexFile!ProgramsAssumption, DexFile!SkipField \/ DexFile!NextList
  PROVE  DexInv'
<1> DEFINE p == input.program
           c == p.classes[pos]
<1>1. status = "methods" /\ status' = "methods" /\ input' = input /\ pos' = pos /\ out' = out
  BY DEF DexFile!SkipField, DexFile!NextList
<1>2. /\ p \in Programs /\ p.cut \in BOOLEAN /\ c \in DexFile!Compiled /\ Len(out) = pos
      /\ DexFile!Data = DexFile!DataOf(p, c)
      /\ \E k \in 0 .. Len(All(c)) : \E f :
           /\ stack = <<f>> /\ DexFile!Frame = f
           /\ StandsIn(p, c, k, f) /\ out[pos].methods = Printed(p, c, k)
  BY <1>1, InsideClass
<1>31. PICK m \in 0 .. Len(All(c)) :
        \E fr : DexFile!Frame = fr /\ StandsIn(p, c, m, fr) /\ out[pos].methods = Printed(p, c, m)
  BY <1>2
<1>3. PICK fr : DexFile!Frame = fr /\ StandsIn(p, c, m, fr) /\ out[pos].methods = Printed(p, c, m)
  BY <1>31
<1>4. out' \in Seq([type : STRING, methods : Seq(Method)])
  BY <1>1 DEF DexInv
<1> HIDE DEF p, c
<1>5. CASE DexFile!SkipField
  <2>1. /\ fr.fields > 0 /\ fr.at + 1 <= Len(DexFile!DataOf(p, c))
        /\ stack' = <<[fr EXCEPT !.fields = @ - 1, !.at = @ + 2]>>
    BY <1>2, <1>3, <1>5 DEF DexFile!SkipField
  <2>2. StandsIn(p, c, m, [fr EXCEPT !.fields = @ - 1, !.at = @ + 2])
    BY <1>2, <1>3, <2>1, FieldSkipped
  <2> DEFINE x == [fr EXCEPT !.fields = @ - 1, !.at = @ + 2]
  <2>3. stack' = <<x>> /\ StandsIn(p, c, m, x)
    BY <2>1, <2>2
  <2> HIDE DEF x
  <2> QED
    BY <1>1, <1>2, <1>3, <1>4, <2>3, StaysInside DEF p, c
<1>6. CASE DexFile!NextList
  <2>1. /\ fr.fields = 0 /\ Head(fr.lists) = 0 /\ Len(fr.lists) = 2
        /\ stack' = <<[fr EXCEPT !.lists = Tail(@), !.number = 0]>>
    BY <1>2, <1>3, <1>6 DEF DexFile!NextList, DexFile!Restart
  <2>2. StandsIn(p, c, m, [fr EXCEPT !.lists = Tail(@), !.number = 0])
    BY <1>2, <1>3, <2>1, ListEnded
  <2> DEFINE x == [fr EXCEPT !.lists = Tail(@), !.number = 0]
  <2>3. stack' = <<x>> /\ StandsIn(p, c, m, x)
    BY <2>1, <2>2
  <2> HIDE DEF x
  <2> QED
    BY <1>1, <1>2, <1>3, <1>4, <2>3, StaysInside DEF p, c
<1> QED
  BY <1>5, <1>6

LEMMA DexReads ==
  ASSUME DexInv, DexFile!ProgramsAssumption, DexFile!ReadMethod
  PROVE  DexInv'
<1> DEFINE p == input.program
           c == p.classes[pos]
           T == [type : STRING, methods : Seq(Method)]
<1>1. status = "methods" /\ status' = "methods" /\ input' = input /\ pos' = pos
  BY DEF DexFile!ReadMethod
<1>2. /\ p \in Programs /\ p.cut \in BOOLEAN /\ c \in DexFile!Compiled /\ Len(out) = pos
      /\ DexFile!Data = DexFile!DataOf(p, c) /\ DexFile!Class.type = c.type
      /\ input.methods = p.methods /\ pos \in 1 .. Len(input.classes)
      /\ \E k \in 0 .. Len(All(c)) : \E f :
           /\ stack = <<f>> /\ DexFile!Frame = f
           /\ StandsIn(p, c, k, f) /\ out[pos].methods = Printed(p, c, k)
  BY <1>1, InsideClass
<1>31. PICK m \in 0 .. Len(All(c)) :
        \E fr : DexFile!Frame = fr /\ StandsIn(p, c, m, fr) /\ out[pos].methods = Printed(p, c, m)
  BY <1>2
<1>3. PICK fr : DexFile!Frame = fr /\ StandsIn(p, c, m, fr) /\ out[pos].methods = Printed(p, c, m)
  BY <1>31
<1>4. out \in Seq(T)
  BY DEF DexInv
<1> HIDE DEF p, c
<1> DEFINE data == DexFile!DataOf(p, c)
           number == fr.number + data[fr.at]
           x == [fr EXCEPT !.lists[1] = @ - 1, !.at = @ + 3, !.number = number]
           e == [number |-> number, code |-> data[fr.at + 2]]
<1>5. /\ fr.fields = 0 /\ Head(fr.lists) > 0 /\ fr.at + 2 <= Len(data)
      /\ stack' = <<x>>
      /\ out' = IF ~DexFile!IsOwn(number) THEN out ELSE [out EXCEPT ![pos].methods = Append(@, e)]
  BY <1>2, <1>3 DEF DexFile!ReadMethod
<1>6. /\ m < Len(All(c)) /\ number = All(c)[m + 1] /\ data[fr.at + 2] = 16 * All(c)[m + 1]
      /\ StandsIn(p, c, m + 1, x)
  BY <1>2, <1>3, <1>5, MethodRead
<1>7. DexFile!IsOwn(number) <=> IsOwnOf(p, c, number)
  BY <1>2 DEF DexFile!IsOwn, IsOwnOf
<1> HIDE DEF data, x, number
<1>8. number \in Nat /\ m + 1 \in 0 .. Len(All(c)) /\ Len(All(c)) \in Nat
  <2>1. All(c) \in Seq(Nat) /\ Len(All(c)) \in Nat
    BY <1>2, ClassParts
  <2>2. m + 1 \in 1 .. Len(All(c)) /\ m + 1 \in 0 .. Len(All(c))
    BY <1>6, <2>1
  <2>3. All(c)[m + 1] \in Nat
    BY <2>1, <2>2
  <2> QED
    BY <1>6, <2>1, <2>2, <2>3
<1>9. /\ Printed(p, c, m) \in Seq(Method)
      /\ Printed(p, c, m + 1) = IF IsOwnOf(p, c, number)
                                THEN Append(Printed(p, c, m), [number |-> number, code |-> 16 * number])
                                ELSE Printed(p, c, m)
  BY <1>2, <1>6, PrintedGrows
<1>10. e = [number |-> number, code |-> 16 * number] /\ e \in Method
  BY <1>6, <1>8 DEF Method
<1> HIDE DEF e
<1>11. CASE ~DexFile!IsOwn(number)
  <2>1. out' = out /\ Printed(p, c, m + 1) = Printed(p, c, m)
    BY <1>5, <1>7, <1>9, <1>11
  <2> QED
    BY <1>1, <1>2, <1>3, <1>4, <1>5, <1>6, <1>8, <2>1, StaysInside DEF p, c
<1>12. CASE DexFile!IsOwn(number)
  <2>1. out' = [out EXCEPT ![pos].methods = Append(@, e)]
    BY <1>5, <1>12
  <2>2. Printed(p, c, m + 1) = Append(out[pos].methods, e)
    BY <1>3, <1>7, <1>9, <1>10, <1>12
  <2>3. pos \in Nat /\ pos >= 1 /\ DOMAIN out = 1 .. pos
    BY <1>2, <1>4
  <2>4. Append(out[pos].methods, e) \in Seq(Method)
    <3>1. out[pos].methods \in Seq(Method)
      BY <1>3, <1>9
    <3> QED
      BY <1>10, <3>1
  <2> DEFINE ms == Append(out[pos].methods, e)
  <2>5. out' = [out EXCEPT ![pos] = [@ EXCEPT !.methods = ms]]
    BY <2>1
  <2> DEFINE y == [out[pos] EXCEPT !.methods = ms]
  <2>6. y \in T /\ y.methods = ms
    <3>1. out[pos] \in T
      <4> HIDE DEF T, ms, y
      <4>1. \A i \in 1 .. Len(out) : out[i] \in T
        BY <1>4
      <4>2. pos \in 1 .. Len(out)
        BY <1>2, <2>3
      <4> QED
        BY <4>1, <4>2
    <3> HIDE DEF ms
    <3> QED
      BY <2>4, <3>1 DEF ms
  <2>7. out' = [out EXCEPT ![pos] = y]
    BY <2>5
  <2> HIDE DEF y, ms, T
  <2>8. out' \in Seq(T) /\ Len(out') = pos /\ out'[pos] = y /\ \A i \in 1 .. pos - 1 : out'[i] = out[i]
    BY <1>2, <1>4, <2>3, <2>6, <2>7
  <2>9. out'[pos].methods = Printed(p, c, m + 1)
    BY <2>2, <2>6, <2>8 DEF ms
  <2> QED
    BY <1>1, <1>5, <1>6, <1>8, <2>8, <2>9, StaysInside DEF p, c, T
<1> QED
  BY <1>11, <1>12

LEMMA DexEnds ==
  ASSUME DexInv, DexFile!ProgramsAssumption, DexFile!EndOfClass \/ DexFile!EndOfFile \/ DexFile!Truncated
  PROVE  DexInv'
<1> DEFINE p == input.program
           n == Len(input.classes)
<1>1. /\ input' = input /\ out' = out /\ status \in {"class", "methods"}
  BY DEF DexFile!EndOfClass, DexFile!EndOfFile, DexFile!Truncated, DexFile!Fail
<1>2. /\ Compilation' /\ ~DexFile!TooMany' /\ ~input'.outside
      /\ out \in Seq([type : STRING, methods : Seq(Method)])
      /\ pos \in 1 .. n + 1 /\ n \in Nat
      /\ \A i \in 1 .. pos - 1 : ReadThrough(p, i, out)
      /\ DexFile!Sound(p)' = DexFile!Sound(p)
  BY <1>1, OtherClasses
<1>3. /\ p' = p /\ n' = n /\ \A i : ReadThrough(p, i, out)' = ReadThrough(p, i, out)
  BY <1>1, SameProgram
<1>4. CASE DexFile!EndOfFile
  <2>1. status = "class" /\ pos > n /\ pos' = pos /\ status' \in {"summary", "done"}
    BY <1>4 DEF DexFile!EndOfFile
  <2>2. Len(out) = pos - 1
    BY <2>1 DEF DexInv
  <2> HIDE DEF p, n
  <2> QED
    BY <1>1, <1>2, <1>3, <2>1, <2>2 DEF DexInv, p, n
<1> DEFINE c == p.classes[pos]
<1>5. ASSUME status = "methods"
      PROVE  /\ p \in Programs /\ p.cut \in BOOLEAN /\ c \in DexFile!Compiled /\ Len(out) = pos
             /\ pos \in 1 .. n /\ Limited(c) /\ DOMAIN p.classes = 1 .. n
             /\ DexFile!Data = DexFile!DataOf(p, c)
             /\ \E k \in 0 .. Len(All(c)) : \E f :
                  /\ stack = <<f>> /\ DexFile!Frame = f
                  /\ StandsIn(p, c, k, f) /\ out[pos].methods = Printed(p, c, k)
  BY <1>5, InsideClass
<1> HIDE DEF c, p, n
<1>6. CASE DexFile!EndOfClass
  <2>1. status = "methods" /\ status' = "class" /\ pos' = pos + 1
        /\ DexFile!Frame.fields = 0 /\ DexFile!Frame.lists = << 0 >>
    BY <1>6 DEF DexFile!EndOfClass
  <2>21. PICK m \in 0 .. Len(All(c)) :
          \E fr : DexFile!Frame = fr /\ StandsIn(p, c, m, fr) /\ out[pos].methods = Printed(p, c, m)
    BY <1>5, <2>1
  <2>2. PICK fr : DexFile!Frame = fr /\ StandsIn(p, c, m, fr) /\ out[pos].methods = Printed(p, c, m)
    BY <2>21
  <2>3. m = Len(All(c)) /\ Uncut(p, c)
    BY <1>5, <2>1, <2>2, ClassEnded
  <2>4. ReadThrough(p, pos, out)
    BY <1>5, <2>1, <2>2, <2>3 DEF ReadThrough, c
  <2>5. \A i \in 1 .. pos' - 1 : i = pos \/ i \in 1 .. pos - 1
    BY <1>2, <2>1
  <2>6. \A i \in 1 .. pos' - 1 : ReadThrough(p, i, out)'
    BY <1>2, <1>3, <2>4, <2>5
  <2>7. pos' \in 1 .. n' + 1 /\ Len(out') = pos' - 1
    BY <1>1, <1>2, <1>3, <1>5, <2>1
  <2> QED
    BY <1>1, <1>2, <2>1, <2>6, <2>7 DEF DexInv, p, n
<1>7. CASE DexFile!Truncated
  <2>1. status = "methods" /\ status' = "end" /\ pos' = pos
    BY <1>7 DEF DexFile!Truncated, DexFile!Fail
  <2>21. PICK m \in 0 .. Len(All(c)) :
          \E fr : DexFile!Frame = fr /\ StandsIn(p, c, m, fr)
    BY <1>5, <2>1
  <2>2. PICK fr : DexFile!Frame = fr /\ StandsIn(p, c, m, fr)
    BY <2>21
  <2>3. \/ fr.fields > 0 /\ fr.at + 1 > Len(DexFile!DataOf(p, c))
        \/ fr.fields = 0 /\ Head(fr.lists) > 0 /\ fr.at + 2 > Len(DexFile!DataOf(p, c))
    BY <1>5, <1>7, <2>1, <2>2 DEF DexFile!Truncated
  <2>4. ~Uncut(p, c)
    BY <1>5, <2>1, <2>2, <2>3, DataEnded
  <2>5. ~DexFile!Sound(p)
    BY <1>5, <2>1, <2>4 DEF DexFile!Sound, Uncut, c
  <2> QED
    BY <1>1, <1>2, <1>3, <2>1, <2>5 DEF DexInv, p, n
<1> QED
  BY <1>4, <1>6, <1>7

LEMMA DexSteps ==
  ASSUME DexInv, DexFile!ProgramsAssumption, [DexFile!Next]_(DexFile!vars)
  PROVE  DexInv'
<1>1. CASE UNCHANGED DexFile!vars
  <2>1. input' = input /\ pos' = pos /\ stack' = stack /\ out' = out /\ status' = status
    BY <1>1 DEF DexFile!vars
  <2>2. Compilation' = Compilation /\ DexFile!TooMany' = DexFile!TooMany
        /\ DexFile!Sound(input.program)' = DexFile!Sound(input.program)
    BY <2>1, SameProgram
  <2>3. /\ \A i : ReadThrough(input.program, i, out)' = ReadThrough(input.program, i, out)
        /\ InClass(input.program, input.program.classes[pos], out)'
             = InClass(input.program, input.program.classes[pos], out)
        /\ Limited(input.program.classes[pos])' = Limited(input.program.classes[pos])
    BY <2>1 DEF ReadThrough, InClass, StandsIn, Limited, Printed, All
  <2> QED
    BY <2>1, <2>2, <2>3 DEF DexInv
<1>2. CASE DexFile!ParseTables \/ DexFile!BadTable
  BY <1>2, DexTables
<1>3. CASE DexFile!BeginClass
  BY <1>3, DexBegins
<1>4. CASE DexFile!SkipField \/ DexFile!NextList
  BY <1>4, DexFields
<1>5. CASE DexFile!ReadMethod
  BY <1>5, DexReads
<1>6. CASE DexFile!EndOfClass \/ DexFile!EndOfFile \/ DexFile!Truncated
  BY <1>6, DexEnds
<1> QED
  BY <1>1, <1>2, <1>3, <1>4, <1>5, <1>6 DEF DexFile!Next

LEMMA DexShows ==
  ASSUME DexInv, DexFile!ProgramsAssumption
  PROVE  DexFile!ClassesReadBack
<1> DEFINE p == input.program
           n == Len(input.classes)
<1>1. Compilation /\ pos \in 1 .. n + 1
  BY DEF DexInv
<1>2. /\ n \in Nat /\ DOMAIN p.classes = 1 .. n /\ Len(p.classes) = n /\ p.cut \in BOOLEAN
      /\ input.outside = p.outside
      /\ \A i \in 1 .. n : p.classes[i] \in DexFile!Compiled
  BY <1>1, DexInputs
<1>3. ASSUME status \in {"done", "summary"}
      PROVE  /\ pos = n + 1 /\ Len(out) = n /\ DOMAIN out = 1 .. n
             /\ \A i \in 1 .. n : ReadThrough(p, i, out)
             /\ ~DexFile!TooMany /\ ~input.outside
  <2>1. pos > n /\ Len(out) = pos - 1 /\ out \in Seq([type : STRING, methods : Seq(Method)])
        /\ ~DexFile!TooMany /\ ~input.outside /\ \A i \in 1 .. pos - 1 : ReadThrough(p, i, out)
    BY <1>3 DEF DexInv
  <2> HIDE DEF n
  <2>2. pos = n + 1 /\ pos - 1 = n
    BY <1>1, <1>2, <2>1
  <2> QED
    BY <2>1, <2>2
<1>4. ASSUME status \in {"done", "summary"}
      PROVE  DexFile!Sound(p)
  <2>1. ASSUME NEW i \in 1 .. n
        PROVE  /\ p.cut => DexFile!ClassData(p.classes[i]) = <<>>
               /\ p.classes[i].fields <= MaxEntries
               /\ Len(p.classes[i].direct) + Len(p.classes[i].virtual) <= MaxEntries
    <3> DEFINE c == p.classes[i]
    <3>1. Uncut(p, c) /\ Limited(c) /\ c \in DexFile!Compiled
      BY <1>2, <1>3, <1>4 DEF ReadThrough
    <3> HIDE DEF c
    <3>2. Len(All(c)) = Len(c.direct) + Len(c.virtual)
      BY <3>1, ClassParts
    <3> QED
      BY <3>1, <3>2 DEF Uncut, Limited, c
  <2> QED
    BY <1>2, <1>3, <1>4, <2>1 DEF DexFile!Sound
<1>5. ASSUME status \in {"done", "summary"}, NEW i \in DOMAIN out
      PROVE  LET c   == input.program.classes[i]
                 own == DexFile!Own(input.program, c)[Len(DexFile!Listed(c))]
             IN  out[i].methods = [k \in DOMAIN own |-> [number |-> own[k], code |-> 16 * own[k]]]
  <2>1. ReadThrough(p, i, out)
    BY <1>3, <1>5
  <2> QED
    BY <2>1 DEF ReadThrough, Printed, MethodsOf, All
<1>6. status \in {"table", "limit", "end"} => ~DexFile!Sound(p)
  BY DEF DexInv
<1>7. status \in {"tables", "class", "methods", "table", "limit", "end", "summary", "done"}
  BY DEF DexInv
<1> HIDE DEF p, n
<1>8. DexFile!Ended => status \in {"table", "limit", "end", "summary", "done"}
  BY <1>7 DEF DexFile!Ended
<1> QED
  BY <1>2, <1>3, <1>4, <1>5, <1>6, <1>8 DEF DexFile!ClassesReadBack, p


-----------------------------------------------------------------------------
(***************************************************************************)
(* Metadata.  A table is as long as the sizes of its columns say, so the   *)
(* reader is where ECMA-335 puts the next one; the first methods of two    *)
(* types that follow each other are as far apart as one of them has        *)
(* methods.                                                                *)
(***************************************************************************)
\* Where the parts of a concatenation begin, and that it holds them.
Flat(X, f, seqs, start) ==
  /\ f \in Seq(X) /\ start \in [1 .. Len(seqs) + 1 -> Nat]
  /\ start[1] = 0 /\ Len(f) = start[Len(seqs) + 1]
  /\ \A i \in 1 .. Len(seqs) :
       /\ start[i + 1] = start[i] + Len(seqs[i])
       /\ \A k \in 1 .. Len(seqs[i]) : f[start[i] + k] = seqs[i][k]

\* The parts up to the nth, put together.
Appends(X, fl, seqs) ==
  /\ fl \in [1 .. Len(seqs) -> Seq(X)] /\ fl[1] = seqs[1]
  /\ \A i \in 2 .. Len(seqs) : Join(X, fl[i], fl[i - 1], seqs[i])

LEMMA FlattenedIs ==
  ASSUME NEW X, NEW seqs \in Seq(Seq(X)), Len(seqs) # 0
  PROVE  \E fl : Appends(X, fl, seqs) /\ DotNet!FlattenSeq(seqs) = fl[Len(seqs)]
<1> DEFINE N == Len(seqs)
           F(fl) == [i \in 1 .. N |-> IF i = 1 THEN seqs[i] ELSE fl[i - 1] \o seqs[i]]
           flat == CHOOSE fl : fl = F(fl)
<1>1. N \in Nat \ {0} /\ seqs \in [1 .. N -> Seq(X)]
  OBVIOUS
<1>2. DotNet!FlattenSeq(seqs) = flat[N]
  BY <1>1 DEF DotNet!FlattenSeq
<1> HIDE DEF N
<1>3. \E g : g = F(g)
  <2> DEFINE step == [x \in Nat \X Seq(X) |-> IF x[1] + 1 \in 1 .. N THEN x[2] \o seqs[x[1] + 1] ELSE x[2]]
  <2>1. step \in [Nat \X Seq(X) -> Seq(X)]
    <3>1. ASSUME NEW x \in Nat \X Seq(X)
          PROVE  (IF x[1] + 1 \in 1 .. N THEN x[2] \o seqs[x[1] + 1] ELSE x[2]) \in Seq(X)
      <4>1. x[2] \in Seq(X)
        OBVIOUS
      <4>2. CASE x[1] + 1 \in 1 .. N
        <5>1. seqs[x[1] + 1] \in Seq(X)
          BY <1>1, <4>2
        <5> QED
          BY <4>1, <4>2, <5>1
      <4> QED
        BY <4>1, <4>2
    <3> QED
      BY <3>1
  <2>2. seqs[1] \in Seq(X) /\ N - 1 \in Nat
    BY <1>1
  <2>3. PICK f : IsRun(f, Seq(X), seqs[1], step, N - 1)
    BY <2>1, <2>2, Iterated
  <2>4. /\ f \in [0 .. N - 1 -> Seq(X)] /\ f[0] = seqs[1]
        /\ \A n \in 1 .. N - 1 : f[n] = step[<<n, f[n - 1]>>]
    BY <2>3 DEF IsRun
  <2> DEFINE g == [i \in 1 .. N |-> f[i - 1]]
  <2>5. ASSUME NEW i \in 1 .. N
        PROVE  f[i - 1] = IF i = 1 THEN seqs[i] ELSE g[i - 1] \o seqs[i]
    <3>1. CASE i = 1
      BY <2>4, <3>1
    <3>2. CASE i # 1
      <4> DEFINE n == i - 1
      <4>1. n \in 1 .. N - 1 /\ n \in Nat /\ n - 1 \in 0 .. N - 1 /\ n + 1 = i /\ n \in 1 .. N
        BY <1>1, <3>2
      <4> HIDE DEF n
      <4>2. f[n] = step[<<n, f[n - 1]>>] /\ f[n - 1] \in Seq(X)
        BY <2>4, <4>1
      <4>3. step[<<n, f[n - 1]>>] = f[n - 1] \o seqs[n + 1]
        BY <4>1, <4>2
      <4>4. g[n] = f[n - 1]
        BY <4>1
      <4>5. f[n] = g[n] \o seqs[i]
        BY <4>1, <4>2, <4>3, <4>4
      <4> QED
        BY <3>2, <4>5 DEF n
    <3> QED
      BY <3>1, <3>2
  <2>6. g = F(g)
    BY <2>5
  <2> QED
    BY <2>6
<1>4. flat = F(flat)
  BY <1>3
<1> HIDE DEF flat
<1>5. /\ flat[1] = seqs[1] /\ flat = [i \in 1 .. N |-> flat[i]]
      /\ \A i \in 2 .. N : flat[i] = flat[i - 1] \o seqs[i]
  <2>1. flat = [i \in 1 .. N |-> flat[i]]
    BY <1>4
  <2>2. \A i \in 1 .. N : flat[i] = IF i = 1 THEN seqs[i] ELSE flat[i - 1] \o seqs[i]
    BY <1>4
  <2>3. 1 \in 1 .. N /\ \A i \in 2 .. N : i \in 1 .. N /\ i # 1
    BY <1>1
  <2> QED
    BY <2>1, <2>2, <2>3
<1> HIDE DEF F
<1> DEFINE S == {n \in Nat : n \in 1 .. N => flat[n] \in Seq(X)}
<1>6. \A n \in S : n + 1 \in S
  <2> SUFFICES ASSUME NEW n \in S, n + 1 \in 1 .. N PROVE flat[n + 1] \in Seq(X)
    OBVIOUS
  <2>1. CASE n = 0
    BY <1>1, <1>5, <2>1
  <2>2. CASE n # 0
    <3>1. n \in 1 .. N /\ n + 1 \in 2 .. N /\ (n + 1) - 1 = n
      BY <1>1, <2>2
    <3>2. flat[n] \in Seq(X) /\ seqs[n + 1] \in Seq(X) /\ flat[n + 1] = flat[n] \o seqs[n + 1]
      BY <1>1, <1>5, <3>1
    <3> QED
      BY <3>2
  <2> QED
    BY <2>1, <2>2
<1>7. \A n \in Nat : n \in S
  <2>1. S \in SUBSET Nat /\ 0 \in S
    OBVIOUS
  <2> HIDE DEF S
  <2> QED
    BY <1>6, <2>1, Induction
<1>8. flat \in [1 .. N -> Seq(X)]
  <2>1. \A i \in 1 .. N : flat[i] \in Seq(X)
    BY <1>1, <1>7
  <2> HIDE DEF S
  <2> QED
    BY <1>5, <2>1
<1>9. ASSUME NEW i \in 2 .. N PROVE Join(X, flat[i], flat[i - 1], seqs[i])
  <2>1. i \in 1 .. N /\ i - 1 \in 1 .. N
    BY <1>1
  <2>2. flat[i - 1] \in Seq(X) /\ seqs[i] \in Seq(X) /\ flat[i] = flat[i - 1] \o seqs[i]
    BY <1>1, <1>5, <1>8, <2>1
  <2> QED
    BY <2>2, Concatenated
<1>10. Appends(X, flat, seqs)
  BY <1>5, <1>8, <1>9 DEF Appends, N
<1> QED
  BY <1>2, <1>10 DEF N

LEMMA Flattened ==
  ASSUME NEW X, NEW seqs \in Seq(Seq(X))
  PROVE  \E start : Flat(X, DotNet!FlattenSeq(seqs), seqs, start)
<1> DEFINE N == Len(seqs)
           cells == DotNet!FlattenSeq(seqs)
<1>1. N \in Nat /\ seqs \in [1 .. N -> Seq(X)]
  OBVIOUS
<1>2. CASE N = 0
  <2> DEFINE start == [i \in 1 .. 1 |-> 0]
  <2>1. cells = <<>> /\ cells \in Seq(X) /\ Len(cells) = 0
    BY <1>2 DEF DotNet!FlattenSeq
  <2>2. start \in [1 .. N + 1 -> Nat] /\ start[1] = 0 /\ N + 1 = 1
    BY <1>2
  <2> HIDE DEF cells, start
  <2>3. Flat(X, cells, seqs, start)
    BY <1>2, <2>1, <2>2 DEF Flat
  <2> QED
    BY <2>3 DEF cells
<1>3. CASE N # 0
  <2>1. PICK fl : Appends(X, fl, seqs) /\ cells = fl[N]
    BY <1>3, FlattenedIs
  <2>2. /\ fl \in [1 .. N -> Seq(X)] /\ fl[1] = seqs[1]
        /\ \A i \in 2 .. N : Join(X, fl[i], fl[i - 1], seqs[i])
    BY <2>1 DEF Appends
  <2> DEFINE start == [i \in 1 .. N + 1 |-> IF i = 1 THEN 0 ELSE Len(fl[i - 1])]
  <2> HIDE DEF N, cells
  <2>3. /\ start \in [1 .. N + 1 -> Nat] /\ start[1] = 0 /\ start[N + 1] = Len(fl[N])
        /\ \A i \in 1 .. N : start[i + 1] = Len(fl[i]) /\ (i # 1 => start[i] = Len(fl[i - 1]))
    <3>1. ASSUME NEW i \in 1 .. N + 1, i # 1 PROVE Len(fl[i - 1]) \in Nat
      <4>1. i - 1 \in 1 .. N
        BY <1>1, <3>1
      <4>2. fl[i - 1] \in Seq(X)
        BY <2>2, <4>1
      <4> QED
        BY <4>2
    <3>2. start \in [1 .. N + 1 -> Nat] /\ start[1] = 0
      BY <1>1, <3>1
    <3>3. ASSUME NEW i \in 1 .. N PROVE start[i + 1] = Len(fl[i]) /\ (i # 1 => start[i] = Len(fl[i - 1]))
      <4>1. i + 1 \in 1 .. N + 1 /\ i + 1 # 1 /\ (i + 1) - 1 = i /\ i \in 1 .. N + 1
        BY <1>1
      <4> QED
        BY <4>1
    <3>4. N \in 1 .. N
      BY <1>1, <1>3
    <3> QED
      BY <3>2, <3>3, <3>4
  <2> HIDE DEF start
  <2>4. ASSUME NEW i \in 1 .. N PROVE start[i + 1] = start[i] + Len(seqs[i])
    <3>1. CASE i = 1
      <4>1. Len(seqs[1]) \in Nat
        BY <1>1, <3>1
      <4> QED
        BY <2>2, <2>3, <3>1, <4>1
    <3>2. CASE i # 1
      <4>1. i \in 2 .. N
        BY <1>1, <3>2
      <4>2. Len(fl[i]) = Len(fl[i - 1]) + Len(seqs[i])
        BY <2>2, <4>1 DEF Join
      <4> QED
        BY <2>3, <3>2, <4>2
    <3> QED
      BY <3>1, <3>2
  <2> DEFINE Held(n, i) == \A k \in 1 .. Len(seqs[i]) : fl[n][start[i] + k] = seqs[i][k]
             S == {n \in Nat : n \in 1 .. N => \A i \in 1 .. n : Held(n, i)}
  <2>5. \A n \in S : n + 1 \in S
    <3> SUFFICES ASSUME NEW n \in S, n + 1 \in 1 .. N, NEW i \in 1 .. n + 1, NEW k \in 1 .. Len(seqs[i])
                 PROVE  fl[n + 1][start[i] + k] = seqs[i][k]
      OBVIOUS
    <3>1. i \in 1 .. N /\ k \in Nat /\ k > 0 /\ start[i] \in Nat /\ i \in 1 .. N + 1
      <4>1. i \in 1 .. N /\ i \in 1 .. N + 1
        BY <1>1
      <4>2. Len(seqs[i]) \in Nat /\ start[i] \in Nat
        BY <1>1, <2>3, <4>1
      <4> QED
        BY <4>1, <4>2
    <3>2. CASE n = 0
      <4>1. i = 1
        BY <3>2
      <4>2. Len(seqs[1]) \in Nat /\ start[i] + k = k
        BY <1>1, <2>3, <3>1, <4>1
      <4> QED
        BY <2>2, <3>2, <4>1, <4>2
    <3>3. CASE n # 0
      <4>1. n \in 1 .. N /\ n + 1 \in 2 .. N /\ (n + 1) - 1 = n
        BY <1>1, <3>3
      <4>2. Join(X, fl[n + 1], fl[n], seqs[n + 1])
        BY <2>2, <4>1
      <4>3. /\ \A j \in 1 .. Len(fl[n]) : fl[n + 1][j] = fl[n][j]
            /\ \A j \in 1 .. Len(seqs[n + 1]) : fl[n + 1][Len(fl[n]) + j] = seqs[n + 1][j]
        BY <4>2 DEF Join
      <4>4. CASE i = n + 1
        <5>1. start[i] = Len(fl[n])
          BY <2>3, <3>1, <4>1, <4>4
        <5> QED
          BY <4>3, <4>4, <5>1
      <4>5. CASE i # n + 1
        <5>1. i \in 1 .. n
          BY <4>1, <4>5
        <5>2. fl[n][start[i] + k] = seqs[i][k]
          BY <4>1, <5>1
        <5>3. start[i] + k \in 1 .. Len(fl[n])
          <6>1. start[i + 1] = start[i] + Len(seqs[i]) /\ start[i + 1] = Len(fl[i]) /\ start[n + 1] = Len(fl[n])
            BY <2>3, <2>4, <3>1, <4>1
          <6> DEFINE T == {m \in Nat : m \in 1 .. N => \A j \in 1 .. m : Len(fl[j]) <= Len(fl[m])}
          <6>2. \A m \in T : m + 1 \in T
            <7> SUFFICES ASSUME NEW m \in T, m + 1 \in 1 .. N, NEW j \in 1 .. m + 1
                         PROVE  Len(fl[j]) <= Len(fl[m + 1])
              OBVIOUS
            <7>1. fl[m + 1] \in Seq(X) /\ Len(fl[m + 1]) \in Nat
              BY <2>2
            <7>2. CASE j = m + 1
              BY <7>1, <7>2
            <7>3. CASE j # m + 1
              <8>1. m \in 1 .. N /\ j \in 1 .. m /\ m + 1 \in 2 .. N /\ (m + 1) - 1 = m
                BY <1>1, <7>3
              <8>2. Join(X, fl[m + 1], fl[m], seqs[m + 1])
                BY <2>2, <8>1
              <8>3. Len(fl[m + 1]) = Len(fl[m]) + Len(seqs[m + 1])
                BY <8>2 DEF Join
              <8>4. Len(fl[j]) <= Len(fl[m])
                BY <8>1
              <8>5. Len(seqs[m + 1]) \in Nat /\ Len(fl[m]) \in Nat
                BY <1>1, <2>2, <8>1
              <8>6. Len(fl[j]) \in Nat
                <9>1. j \in 1 .. N
                  BY <1>1, <8>1
                <9>2. fl[j] \in Seq(X)
                  BY <2>2, <9>1
                <9> QED
                  BY <9>2
              <8> DEFINE b == Len(fl[m])
                         c == Len(seqs[m + 1])
              <8>7. Len(fl[m + 1]) = b + c /\ Len(fl[j]) <= b /\ b \in Nat /\ c \in Nat
                BY <8>3, <8>4, <8>5
              <8> HIDE DEF b, c, T, S
              <8> QED
                BY <8>6, <8>7
            <7> QED
              BY <7>2, <7>3
          <6>3. \A m \in Nat : m \in T
            <7>1. T \in SUBSET Nat /\ 0 \in T
              OBVIOUS
            <7> HIDE DEF T
            <7> QED
              BY <6>2, <7>1, Induction
          <6>4. Len(fl[i]) <= Len(fl[n])
            BY <4>1, <5>1, <6>3
          <6>5. Len(fl[i]) \in Nat /\ Len(fl[n]) \in Nat /\ Len(seqs[i]) \in Nat
            BY <1>1, <2>2, <3>1, <4>1
          <6>6. k <= Len(seqs[i])
            BY <6>5
          <6> DEFINE b == Len(fl[i])
                     c == Len(fl[n])
                     l == Len(seqs[i])
                     s == start[i]
          <6>7. b = s + l /\ b <= c /\ b \in Nat /\ c \in Nat /\ l \in Nat /\ k <= l /\ s \in Nat
            BY <3>1, <6>1, <6>4, <6>5, <6>6
          <6> HIDE DEF T, S, b, c, l, s
          <6>8. s + k \in 1 .. c
            BY <3>1, <6>7
          <6> QED
            BY <6>8 DEF s, c
        <5> QED
          BY <4>3, <5>2, <5>3
      <4> QED
        BY <4>4, <4>5
    <3> QED
      BY <3>2, <3>3
  <2>6. \A n \in Nat : n \in S
    <3>1. S \in SUBSET Nat /\ 0 \in S
      OBVIOUS
    <3> HIDE DEF S
    <3> QED
      BY <2>5, <3>1, Induction
  <2>7. \A i \in 1 .. N : Held(N, i)
    <3>1. N \in Nat /\ N \in 1 .. N /\ N \in S
      BY <1>1, <1>3, <2>6
    <3> QED
      BY <3>1
  <2>8. cells \in Seq(X) /\ Len(cells) = start[N + 1]
    <3>1. N \in 1 .. N
      BY <1>1, <1>3
    <3> QED
      BY <2>1, <2>2, <2>3, <3>1 DEF cells, N
  <2>9. \A i \in 1 .. N : \A k \in 1 .. Len(seqs[i]) : cells[start[i] + k] = seqs[i][k]
    BY <2>1, <2>7 DEF cells, N
  <2>10. Flat(X, cells, seqs, start)
    BY <2>3, <2>4, <2>8, <2>9 DEF Flat, N
  <2> QED
    BY <2>10 DEF cells
<1> QED
  BY <1>2, <1>3

\* Parts of one size stand at multiples of it.
Blocks(X, f, seqs, w) ==
  /\ f \in Seq(X) /\ Len(f) = Len(seqs) * w
  /\ \A i \in 1 .. Len(seqs) : \A k \in 1 .. w : f[(i - 1) * w + k] = seqs[i][k]

LEMMA Uniform ==
  ASSUME NEW X, NEW seqs \in Seq(Seq(X)), NEW w \in Nat, \A i \in 1 .. Len(seqs) : Len(seqs[i]) = w
  PROVE  Blocks(X, DotNet!FlattenSeq(seqs), seqs, w)
<1> DEFINE N == Len(seqs)
           f == DotNet!FlattenSeq(seqs)
<1>1. PICK start : Flat(X, f, seqs, start)
  BY Flattened
<1>2. N \in Nat
  OBVIOUS
<1>3. /\ f \in Seq(X) /\ start \in [1 .. N + 1 -> Nat] /\ start[1] = 0 /\ Len(f) = start[N + 1]
      /\ \A i \in 1 .. N : /\ start[i + 1] = start[i] + w
                           /\ \A k \in 1 .. w : f[start[i] + k] = seqs[i][k]
  BY <1>1 DEF Flat
<1> HIDE DEF N, f
<1> DEFINE S == {n \in Nat : n \in 0 .. N => start[n + 1] = n * w}
<1>4. \A n \in S : n + 1 \in S
  <2> SUFFICES ASSUME NEW n \in S, n + 1 \in 0 .. N PROVE start[(n + 1) + 1] = (n + 1) * w
    OBVIOUS
  <2>1. n \in 0 .. N /\ n + 1 \in 1 .. N /\ n \in Nat
    BY <1>2
  <2>2. start[n + 1] = n * w
    BY <2>1
  <2>3. start[(n + 1) + 1] = n * w + w
    BY <1>3, <2>1, <2>2
  <2>4. n * w + w = (n + 1) * w
    BY <2>1
  <2> QED
    BY <2>3, <2>4
<1>5. \A n \in Nat : n \in S
  <2>1. S \in SUBSET Nat /\ 0 \in S
    BY <1>3
  <2> HIDE DEF S
  <2> QED
    BY <1>4, <2>1, Induction
<1>6. Len(f) = N * w
  BY <1>2, <1>3, <1>5
<1>7. ASSUME NEW i \in 1 .. N PROVE start[i] = (i - 1) * w
  <2>1. i - 1 \in Nat /\ i - 1 \in 0 .. N /\ (i - 1) + 1 = i
    BY <1>2
  <2> QED
    BY <1>5, <2>1
<1>8. \A i \in 1 .. N : \A k \in 1 .. w : f[(i - 1) * w + k] = seqs[i][k]
  BY <1>3, <1>7
<1> QED
  BY <1>3, <1>6, <1>8 DEF Blocks, N, f

Assembled == {a \in Assemblies : /\ a.types \in Seq([methods : Nat])
                                 /\ \A t \in DOMAIN a.rows : a.rows[t] \in Nat
                                 /\ a.cut \in 0 .. Len(DotNet!Tables(a))}

LEMMA MethodsAdd ==
  ASSUME NEW a \in Assembled
  PROVE  LET sum == DotNet!MethodsOf(a)
             n   == Len(a.types)
         IN  /\ n \in Nat /\ sum \in [0 .. n -> Nat] /\ sum[0] = 0
             /\ \A i \in 1 .. n : a.types[i].methods \in Nat /\ sum[i] = sum[i - 1] + a.types[i].methods
<1> DEFINE n == Len(a.types)
           F(sum) == [i \in 0 .. n |-> IF i = 0 THEN 0 ELSE sum[i - 1] + a.types[i].methods]
           sum == CHOOSE s : s = F(s)
           step == [x \in Nat \X Nat |-> IF x[1] \in 1 .. n THEN x[2] + a.types[x[1]].methods ELSE x[2]]
<1>1. n \in Nat /\ \A i \in 1 .. n : a.types[i].methods \in Nat
  <2> DEFINE ty == a.types
             R  == [methods : Nat]
  <2>1. ty \in Seq(R)
    BY DEF Assembled
  <2> HIDE DEF ty, R
  <2>2. Len(ty) \in Nat /\ \A i \in 1 .. Len(ty) : ty[i] \in R
    BY <2>1
  <2>3. \A x \in R : x.methods \in Nat
    BY DEF R
  <2>4. \A i \in 1 .. Len(ty) : ty[i].methods \in Nat
    BY <2>2, <2>3
  <2> QED
    BY <2>2, <2>4 DEF ty
<1>2. DotNet!MethodsOf(a) = sum
  BY DEF DotNet!MethodsOf
<1> HIDE DEF n
<1>3. step \in [Nat \X Nat -> Nat]
  BY <1>1
<1>4. PICK f : IsRun(f, Nat, 0, step, n)
  BY <1>1, <1>3, Iterated
<1>5. f \in [0 .. n -> Nat] /\ f[0] = 0 /\ \A i \in 1 .. n : f[i] = step[<<i, f[i - 1]>>]
  BY <1>4 DEF IsRun
<1>6. ASSUME NEW i \in 1 .. n PROVE f[i] = f[i - 1] + a.types[i].methods
  <2>1. i \in Nat /\ i - 1 \in 0 .. n
    BY <1>1
  <2>2. f[i - 1] \in Nat
    BY <1>5, <2>1
  <2>3. step[<<i, f[i - 1]>>] = f[i - 1] + a.types[i].methods
    BY <2>1, <2>2
  <2> QED
    BY <1>5, <2>3
<1> HIDE DEF step
<1>7. f = F(f)
  <2>1. f = [i \in 0 .. n |-> f[i]]
    BY <1>5
  <2>2. \A i \in 0 .. n : f[i] = IF i = 0 THEN 0 ELSE f[i - 1] + a.types[i].methods
    <3>1. \A i \in 0 .. n : i = 0 \/ i \in 1 .. n
      BY <1>1
    <3> QED
      BY <1>5, <1>6, <3>1
  <2> QED
    BY <2>1, <2>2
<1>8. sum = F(sum)
  BY <1>7
<1> HIDE DEF sum
<1>9. /\ sum = [i \in 0 .. n |-> sum[i]] /\ sum[0] = 0
      /\ \A i \in 1 .. n : sum[i] = sum[i - 1] + a.types[i].methods
  <2>1. sum = [i \in 0 .. n |-> sum[i]]
    BY <1>8
  <2>2. \A i \in 0 .. n : sum[i] = IF i = 0 THEN 0 ELSE sum[i - 1] + a.types[i].methods
    BY <1>8
  <2>3. 0 \in 0 .. n /\ \A i \in 1 .. n : i \in 0 .. n /\ i # 0
    BY <1>1
  <2> QED
    BY <2>1, <2>2, <2>3
<1> HIDE DEF F
<1> DEFINE S == {i \in Nat : i \in 0 .. n => sum[i] \in Nat}
<1>10. \A i \in S : i + 1 \in S
  <2> SUFFICES ASSUME NEW i \in S, i + 1 \in 0 .. n PROVE sum[i + 1] \in Nat
    OBVIOUS
  <2>1. i + 1 \in 1 .. n /\ (i + 1) - 1 = i /\ i \in 0 .. n
    BY <1>1
  <2>2. sum[i] \in Nat /\ a.types[i + 1].methods \in Nat /\ sum[i + 1] = sum[i] + a.types[i + 1].methods
    BY <1>1, <1>9, <2>1
  <2> HIDE DEF S
  <2> QED
    BY <2>2
<1>11. \A i \in Nat : i \in S
  <2>1. S \in SUBSET Nat /\ 0 \in S
    BY <1>9
  <2> HIDE DEF S
  <2> QED
    BY <1>10, <2>1, Induction
<1>12. \A i \in 0 .. n : sum[i] \in Nat
  BY <1>1, <1>11
<1>13. sum \in [0 .. n -> Nat]
  <2> HIDE DEF S
  <2> QED
    BY <1>9, <1>12
<1> QED
  BY <1>1, <1>2, <1>9, <1>13 DEF n

\* The methods of a type are among all.
LEMMA MethodsWithin ==
  ASSUME NEW a \in Assembled, NEW i \in 0 .. Len(a.types)
  PROVE  DotNet!MethodsOf(a)[i] <= DotNet!MethodsOf(a)[Len(a.types)]
<1> DEFINE sum == DotNet!MethodsOf(a)
           n == Len(a.types)
<1>1. /\ n \in Nat /\ sum \in [0 .. n -> Nat]
      /\ \A j \in 1 .. n : a.types[j].methods \in Nat /\ sum[j] = sum[j - 1] + a.types[j].methods
  BY MethodsAdd
<1>2. i \in 0 .. n
  OBVIOUS
<1> HIDE DEF sum, n
<1> DEFINE S == {d \in Nat : i + d \in 0 .. n => sum[i] <= sum[i + d]}
<1>3. \A d \in S : d + 1 \in S
  <2> SUFFICES ASSUME NEW d \in S, i + (d + 1) \in 0 .. n PROVE sum[i] <= sum[i + (d + 1)]
    OBVIOUS
  <2> DEFINE j == i + (d + 1)
  <2>1. j \in 1 .. n /\ j - 1 = i + d /\ j - 1 \in 0 .. n /\ i + d \in 0 .. n
    BY <1>1, <1>2
  <2>2. sum[i] <= sum[j - 1]
    BY <2>1
  <2> HIDE DEF j, S
  <2>3. sum[j] = sum[j - 1] + a.types[j].methods /\ a.types[j].methods \in Nat /\ sum[j - 1] \in Nat /\ sum[i] \in Nat
    BY <1>1, <1>2, <2>1
  <2>4. sum[i] <= sum[j]
    BY <2>2, <2>3
  <2> QED
    BY <2>4 DEF j
<1>4. \A d \in Nat : d \in S
  <2>1. sum[i] <= sum[i]
    BY <1>1, <1>2
  <2>2. S \in SUBSET Nat /\ 0 \in S
    BY <1>2, <2>1
  <2> HIDE DEF S
  <2> QED
    BY <1>3, <2>2, Induction
<1>5. n - i \in Nat /\ i + (n - i) = n
  BY <1>1, <1>2
<1>6. sum[i] <= sum[n]
  <2> DEFINE d == n - i
  <2>1. d \in Nat /\ i + d = n /\ n \in 0 .. n
    BY <1>1, <1>5
  <2> HIDE DEF d
  <2>2. i + d \in 0 .. n /\ d \in S
    BY <1>4, <2>1
  <2>3. sum[i] <= sum[i + d]
    BY <2>1, <2>2
  <2> QED
    BY <2>1, <2>3
<1> QED
  BY <1>6 DEF sum, n

-----------------------------------------------------------------------------
\* The columns of a row are as wide as the reader takes them to be.
Cell == [width : Nat, value : Nat]

LEMMA NumberIs ==
  ASSUME NEW w \in {2, 4}, NEW v \in Nat
  PROVE  /\ DotNet!Number(w, v) \in Seq(Cell) /\ Len(DotNet!Number(w, v)) = w
         /\ DotNet!Number(w, v)[1] = [width |-> w, value |-> v]
<1> DEFINE c == [width |-> w, value |-> v]
           r == [i \in 1 .. w - 1 |-> DotNet!Rest]
           s == <<c>>
           cells == DotNet!Number(w, v)
<1>1. c \in Cell /\ DotNet!Rest \in Cell
  BY DEF Cell, DotNet!Rest
<1>2. w - 1 \in Nat /\ w \in Nat
  OBVIOUS
<1>3. r \in Seq(Cell) /\ Len(r) = w - 1
  BY <1>1, <1>2
<1>4. s \in Seq(Cell) /\ Len(s) = 1 /\ s[1] = c
  BY <1>1
<1>5. cells = s \o r
  BY DEF DotNet!Number
<1> HIDE DEF c, r, s, cells
<1>6. Join(Cell, cells, s, r)
  BY <1>3, <1>4, <1>5, Concatenated
<1>7. cells \in Seq(Cell) /\ Len(cells) = w /\ cells[1] = s[1]
  BY <1>2, <1>3, <1>4, <1>6 DEF Join
<1> QED
  BY <1>4, <1>7 DEF cells, c

IsSize(n) == n \in {2, 4}

\* The width of each column.
LEMMA Widths ==
  ASSUME Wide \in Nat, NEW a, input.assembly = a
  PROVE  /\ DotNet!WidthOf(a, "2") = 2 /\ DotNet!WidthOf(a, "4") = 4
         /\ DotNet!WidthOf(a, "string") = DotNet!HeapSize("string")
         /\ DotNet!WidthOf(a, "guid") = DotNet!HeapSize("guid")
         /\ DotNet!WidthOf(a, "blob") = DotNet!HeapSize("blob")
         /\ DotNet!WidthOf(a, "scope") = DotNet!CodedIndexSize({0, 1, 26, 35}, 2)
         /\ DotNet!WidthOf(a, "parent") = DotNet!CodedIndexSize({2, 1, 27}, 2)
         /\ DotNet!WidthOf(a, "field") = DotNet!TableIndexSize(4)
         /\ DotNet!WidthOf(a, "method") = DotNet!TableIndexSize(6)
         /\ DotNet!WidthOf(a, "param") = DotNet!TableIndexSize(8)
<1>1. /\ DotNet!WidthOf(a, "2") = 2 /\ DotNet!WidthOf(a, "4") = 4
      /\ DotNet!WidthOf(a, "string") = DotNet!HeapSize("string")
      /\ DotNet!WidthOf(a, "guid") = DotNet!HeapSize("guid")
      /\ DotNet!WidthOf(a, "blob") = DotNet!HeapSize("blob")
  BY DEF DotNet!WidthOf, DotNet!HeapSize
<1>2. ASSUME NEW column \in {"field", "method", "param", "parent", "scope"}
      PROVE  DotNet!WidthOf(a, column) =
               IF \A i \in DOMAIN DotNet!Reaches[column] :
                    DotNet!Rows(a, DotNet!Reaches[column][i]) < 2 ^ (Wide - DotNet!TagBits[column])
               THEN 2 ELSE 4
  BY DEF DotNet!WidthOf
<1>3. /\ DotNet!Reaches["field"] = <<4>> /\ DotNet!Reaches["method"] = <<6>> /\ DotNet!Reaches["param"] = <<8>>
      /\ DotNet!Reaches["parent"] = <<2, 1, 27>> /\ DotNet!Reaches["scope"] = <<0, 26, 35, 1>>
  BY DEF DotNet!Reaches
<1>4. /\ DotNet!TagBits["field"] = 0 /\ DotNet!TagBits["method"] = 0 /\ DotNet!TagBits["param"] = 0
      /\ DotNet!TagBits["parent"] = 2 /\ DotNet!TagBits["scope"] = 2
  BY DEF DotNet!TagBits
<1>5. Wide - 0 = Wide
  OBVIOUS
<1>6. \A t : DotNet!Count(t) = DotNet!Rows(a, t)
  BY DEF DotNet!Count
<1>7. ASSUME NEW column \in {"field", "method", "param"}, NEW t, DotNet!Reaches[column] = <<t>>
      PROVE  DotNet!WidthOf(a, column) = DotNet!TableIndexSize(t)
  <2>1. DotNet!TagBits[column] = 0
    BY <1>4
  <2>2. DotNet!WidthOf(a, column) =
          IF \A i \in DOMAIN <<t>> : DotNet!Rows(a, <<t>>[i]) < 2 ^ Wide THEN 2 ELSE 4
    BY <1>2, <1>5, <1>7, <2>1
  <2>3. (\A i \in DOMAIN <<t>> : DotNet!Rows(a, <<t>>[i]) < 2 ^ Wide) <=> DotNet!Rows(a, t) < 2 ^ Wide
    OBVIOUS
  <2> QED
    BY <1>6, <2>2, <2>3 DEF DotNet!TableIndexSize
<1>8. DotNet!WidthOf(a, "parent") = DotNet!CodedIndexSize({2, 1, 27}, 2)
  <2>1. DotNet!WidthOf(a, "parent") =
          IF \A i \in DOMAIN <<2, 1, 27>> : DotNet!Rows(a, <<2, 1, 27>>[i]) < 2 ^ (Wide - 2) THEN 2 ELSE 4
    BY <1>2, <1>3, <1>4
  <2>2. (\A i \in DOMAIN <<2, 1, 27>> : DotNet!Rows(a, <<2, 1, 27>>[i]) < 2 ^ (Wide - 2))
          <=> \A t \in {2, 1, 27} : DotNet!Rows(a, t) < 2 ^ (Wide - 2)
    OBVIOUS
  <2> QED
    BY <1>6, <2>1, <2>2 DEF DotNet!CodedIndexSize
<1>9. DotNet!WidthOf(a, "scope") = DotNet!CodedIndexSize({0, 1, 26, 35}, 2)
  <2>1. DotNet!WidthOf(a, "scope") =
          IF \A i \in DOMAIN <<0, 26, 35, 1>> : DotNet!Rows(a, <<0, 26, 35, 1>>[i]) < 2 ^ (Wide - 2) THEN 2 ELSE 4
    BY <1>2, <1>3, <1>4
  <2>2. (\A i \in DOMAIN <<0, 26, 35, 1>> : DotNet!Rows(a, <<0, 26, 35, 1>>[i]) < 2 ^ (Wide - 2))
          <=> \A t \in {0, 1, 26, 35} : DotNet!Rows(a, t) < 2 ^ (Wide - 2)
    OBVIOUS
  <2> QED
    BY <1>6, <2>1, <2>2 DEF DotNet!CodedIndexSize
<1> QED
  BY <1>1, <1>3, <1>7, <1>8, <1>9

LEMMA IndexSizes ==
  /\ \A heap : IsSize(DotNet!HeapSize(heap))
  /\ \A t : IsSize(DotNet!TableIndexSize(t))
  /\ \A ts, bits : IsSize(DotNet!CodedIndexSize(ts, bits))
BY DEF IsSize, DotNet!HeapSize, DotNet!TableIndexSize, DotNet!CodedIndexSize

ColumnNames == {"2", "4", "string", "guid", "blob", "scope", "parent", "field", "method", "param"}

LEMMA ColumnsAre ==
  /\ DotNet!Columns(0) = <<"2", "string", "guid", "guid", "guid">>
  /\ DotNet!Columns(1) = <<"scope", "string", "string">>
  /\ DotNet!Columns(2) = <<"4", "string", "string", "parent", "field", "method">>
  /\ DotNet!Columns(3) = <<"field">>
  /\ DotNet!Columns(4) = <<"2", "string", "blob">>
  /\ DotNet!Columns(5) = <<"method">>
  /\ DotNet!Columns(6) = <<"4", "2", "2", "string", "blob", "param">>
BY DEF DotNet!Columns

LEMMA ColumnsNamed ==
  ASSUME NEW t \in 0 .. 6
  PROVE  /\ Len(DotNet!Columns(t)) \in Nat /\ DOMAIN DotNet!Columns(t) = 1 .. Len(DotNet!Columns(t))
         /\ \A c \in 1 .. Len(DotNet!Columns(t)) : DotNet!Columns(t)[c] \in ColumnNames
<1> DEFINE Good(s) == Len(s) \in Nat /\ DOMAIN s = 1 .. Len(s) /\ \A c \in 1 .. Len(s) : s[c] \in ColumnNames
<1>1. Good(<<"2", "string", "guid", "guid", "guid">>)
  BY DEF ColumnNames
<1>2. Good(<<"scope", "string", "string">>)
  BY DEF ColumnNames
<1>3. Good(<<"4", "string", "string", "parent", "field", "method">>)
  BY DEF ColumnNames
<1>4. Good(<<"field">>) /\ Good(<<"method">>)
  BY DEF ColumnNames
<1>5. Good(<<"2", "string", "blob">>)
  BY DEF ColumnNames
<1>6. Good(<<"4", "2", "2", "string", "blob", "param">>)
  BY DEF ColumnNames
<1>7. t \in {0, 1, 2, 3, 4, 5, 6}
  OBVIOUS
<1> HIDE DEF Good
<1>8. Good(DotNet!Columns(t))
  BY <1>1, <1>2, <1>3, <1>4, <1>5, <1>6, <1>7, ColumnsAre
<1> QED
  BY <1>8 DEF Good

\* What is known of the assembly that is read.
LEMMA AssemblyIs ==
  ASSUME NEW a \in Assembled, NEW t
  PROVE  DotNet!Rows(a, t) \in Nat
<1>1. Len(a.types) \in Nat /\ DotNet!MethodsOf(a)[Len(a.types)] \in Nat
  <2> DEFINE n == Len(a.types)
             sum == DotNet!MethodsOf(a)
  <2>1. n \in Nat /\ sum \in [0 .. n -> Nat]
    BY MethodsAdd
  <2> HIDE DEF n, sum
  <2>2. n \in Nat /\ sum[n] \in Nat
    BY <2>1
  <2> QED
    BY <2>2 DEF n, sum
<1>2. t \in DOMAIN a.rows => a.rows[t] \in Nat
  BY DEF Assembled
<1> QED
  BY <1>1, <1>2 DEF DotNet!Rows

LEMMA ValuesAre ==
  ASSUME NEW a \in Assembled, NEW t \in 0 .. 6, NEW r \in 1 .. DotNet!Rows(a, t), NEW column
  PROVE  DotNet!ValueOf(a, t, r, column) \in Nat
<1>1. r \in Nat
  BY AssemblyIs
<1>2. CASE t = 2
  <2> DEFINE n == Len(a.types)
             sum == DotNet!MethodsOf(a)
  <2>1. n \in Nat /\ sum \in [0 .. n -> Nat]
    BY MethodsAdd
  <2>2. r \in 1 .. n
    BY <1>2 DEF DotNet!Rows
  <2>3. DotNet!FirstMethod(a, r) = 1 + sum[r - 1]
    BY DEF DotNet!FirstMethod
  <2> HIDE DEF n, sum
  <2>4. r - 1 \in 0 .. n
    BY <2>1, <2>2
  <2>5. DotNet!FirstMethod(a, r) \in Nat
    BY <2>1, <2>3, <2>4
  <2> QED
    BY <1>1, <2>5 DEF DotNet!ValueOf
<1>3. CASE t # 2
  BY <1>1, <1>3 DEF DotNet!ValueOf
<1> QED
  BY <1>2, <1>3

\* Where the columns of a row begin, and what is at the beginning of each.
RowFrom(a, t, r, start) ==
  LET cols == DotNet!Columns(t)
  IN  /\ DotNet!Row(a, t, r) \in Seq(Cell)
      /\ start \in [1 .. Len(cols) + 1 -> Nat] /\ start[1] = 0
      /\ Len(DotNet!Row(a, t, r)) = start[Len(cols) + 1]
      /\ \A c \in 1 .. Len(cols) :
           /\ start[c + 1] = start[c] + DotNet!WidthOf(a, cols[c])
           /\ DotNet!Row(a, t, r)[start[c] + 1] =
                [width |-> DotNet!WidthOf(a, cols[c]), value |-> DotNet!ValueOf(a, t, r, cols[c])]

LEMMA RowIs ==
  ASSUME Wide \in Nat, NEW a \in Assembled, input.assembly = a,
         NEW t \in 0 .. 6, NEW r \in 1 .. DotNet!Rows(a, t)
  PROVE  \E start : RowFrom(a, t, r, start)
<1> DEFINE cols == DotNet!Columns(t)
           n == Len(cols)
           W(c) == DotNet!WidthOf(a, cols[c])
           V(c) == DotNet!ValueOf(a, t, r, cols[c])
           parts == [c \in DOMAIN cols |-> DotNet!Number(W(c), V(c))]
           row == DotNet!Row(a, t, r)
<1>1. n \in Nat /\ DOMAIN cols = 1 .. n /\ \A c \in 1 .. n : cols[c] \in ColumnNames
  BY ColumnsNamed
<1>2. \A c \in 1 .. n : W(c) \in {2, 4}
  <2>1. \A column \in ColumnNames : IsSize(DotNet!WidthOf(a, column))
    <3> SUFFICES ASSUME NEW column \in ColumnNames PROVE IsSize(DotNet!WidthOf(a, column))
      OBVIOUS
    <3>1. IsSize(2) /\ IsSize(4)
      BY DEF IsSize
    <3> QED
      BY <3>1, Widths, IndexSizes DEF ColumnNames
  <2> QED
    BY <1>1, <2>1 DEF IsSize
<1>3. \A c \in 1 .. n : V(c) \in Nat
  BY ValuesAre
<1>4. row = DotNet!FlattenSeq(parts)
  BY DEF DotNet!Row
<1> HIDE DEF W, V, n, cols, row
<1>5. ASSUME NEW c \in 1 .. n
      PROVE  /\ DotNet!Number(W(c), V(c)) \in Seq(Cell) /\ Len(DotNet!Number(W(c), V(c))) = W(c)
             /\ DotNet!Number(W(c), V(c))[1] = [width |-> W(c), value |-> V(c)]
  BY <1>2, <1>3, NumberIs
<1>6. parts \in Seq(Seq(Cell)) /\ Len(parts) = n /\ \A c \in 1 .. n : parts[c] = DotNet!Number(W(c), V(c))
  <2> DEFINE N(c) == DotNet!Number(W(c), V(c))
  <2>1. parts = [c \in 1 .. n |-> N(c)]
    BY <1>1
  <2>2. \A c \in 1 .. n : N(c) \in Seq(Cell)
    BY <1>5
  <2> HIDE DEF N, parts
  <2>3. parts \in Seq(Seq(Cell)) /\ Len(parts) = n /\ \A c \in 1 .. n : parts[c] = N(c)
    BY <1>1, <2>1, <2>2
  <2> QED
    BY <2>3 DEF N
<1> HIDE DEF parts
<1>7. PICK start : Flat(Cell, row, parts, start)
  BY <1>4, <1>6, Flattened
<1>8. /\ row \in Seq(Cell) /\ start \in [1 .. n + 1 -> Nat] /\ start[1] = 0 /\ Len(row) = start[n + 1]
      /\ \A c \in 1 .. n : start[c + 1] = start[c] + W(c) /\ row[start[c] + 1] = [width |-> W(c), value |-> V(c)]
  <2>1. /\ row \in Seq(Cell) /\ start \in [1 .. n + 1 -> Nat] /\ start[1] = 0 /\ Len(row) = start[n + 1]
        /\ \A c \in 1 .. n : /\ start[c + 1] = start[c] + Len(parts[c])
                             /\ \A k \in 1 .. Len(parts[c]) : row[start[c] + k] = parts[c][k]
    BY <1>6, <1>7 DEF Flat
  <2>2. ASSUME NEW c \in 1 .. n
        PROVE  start[c + 1] = start[c] + W(c) /\ row[start[c] + 1] = [width |-> W(c), value |-> V(c)]
    <3>1. Len(parts[c]) = W(c) /\ parts[c][1] = [width |-> W(c), value |-> V(c)] /\ 1 \in 1 .. W(c)
      <4>1. parts[c] = DotNet!Number(W(c), V(c)) /\ W(c) \in {2, 4}
        BY <1>2, <1>6
      <4>2. 1 \in 1 .. W(c)
        BY <4>1
      <4> QED
        BY <1>5, <4>1, <4>2
    <3> QED
      BY <2>1, <3>1
  <2> QED
    BY <2>1, <2>2
<1>9. RowFrom(a, t, r, start)
  BY <1>8 DEF RowFrom, W, V, n, cols, row
<1> QED
  BY <1>9

\* A row as the reader steps over it, and the numbers that it takes from it.
RowRead(a, t, r) ==
  LET row == DotNet!Row(a, t, r)
      string == DotNet!HeapSize("string")
      list == DotNet!TableIndexSize(6)
  IN  /\ row \in Seq(Cell) /\ Len(row) = DotNet!RowSize(t)
      /\ t = 2 => /\ row[4 + 1] = [width |-> string, value |-> r]
                  /\ row[DotNet!RowSize(2) - list + 1] = [width |-> list, value |-> DotNet!FirstMethod(a, r)]
      /\ t = 6 => row[8 + 1] = [width |-> string, value |-> r]

LEMMA RowIsRead ==
  ASSUME Wide \in Nat, NEW a \in Assembled, input.assembly = a,
         NEW t \in 0 .. 6, NEW r \in 1 .. DotNet!Rows(a, t)
  PROVE  RowRead(a, t, r)
<1> DEFINE row == DotNet!Row(a, t, r)
           string == DotNet!HeapSize("string")
           guid == DotNet!HeapSize("guid")
           blob == DotNet!HeapSize("blob")
           scope == DotNet!CodedIndexSize({0, 1, 26, 35}, 2)
           parent == DotNet!CodedIndexSize({2, 1, 27}, 2)
           field == DotNet!TableIndexSize(4)
           method == DotNet!TableIndexSize(6)
           param == DotNet!TableIndexSize(8)
           Width(column) == DotNet!WidthOf(a, column)
           From(cols, s) ==
             /\ s \in [1 .. Len(cols) + 1 -> Nat] /\ s[1] = 0 /\ Len(row) = s[Len(cols) + 1]
             /\ \A c \in 1 .. Len(cols) :
                  /\ s[c + 1] = s[c] + Width(cols[c])
                  /\ row[s[c] + 1] =
                       [width |-> Width(cols[c]), value |-> DotNet!ValueOf(a, t, r, cols[c])]
<1>1. PICK start : RowFrom(a, t, r, start)
  BY RowIs
<1>2. row \in Seq(Cell) /\ From(DotNet!Columns(t), start)
  BY <1>1 DEF RowFrom
<1>3. /\ string \in Nat /\ guid \in Nat /\ blob \in Nat /\ scope \in Nat /\ parent \in Nat
      /\ field \in Nat /\ method \in Nat /\ param \in Nat
  <2>1. \A n : IsSize(n) => n \in Nat
    BY DEF IsSize
  <2> QED
    BY <2>1, IndexSizes
<1>4. /\ Width("2") = 2 /\ Width("4") = 4
      /\ Width("string") = string /\ Width("guid") = guid
      /\ Width("blob") = blob /\ Width("scope") = scope
      /\ Width("parent") = parent /\ Width("field") = field
      /\ Width("method") = method /\ Width("param") = param
  BY Widths
<1>5. /\ DotNet!RowSize(0) = 2 + string + guid * 3
      /\ DotNet!RowSize(1) = scope + string * 2
      /\ DotNet!RowSize(2) = 4 + string * 2 + parent + field + method
      /\ DotNet!RowSize(3) = field
      /\ DotNet!RowSize(4) = 2 + string + blob
      /\ DotNet!RowSize(5) = method
      /\ DotNet!RowSize(6) = 4 + 2 + 2 + string + blob + param
  BY DEF DotNet!RowSize
<1>6. DotNet!ValueOf(a, t, r, "string") = r /\ (t = 2 => DotNet!ValueOf(a, t, r, "method") = DotNet!FirstMethod(a, r))
  BY DEF DotNet!ValueOf
<1>7. r \in Nat
  BY AssemblyIs
<1> HIDE DEF row, string, guid, blob, scope, parent, field, method, param, Width
<1>10. CASE t = 0
  <2> DEFINE cols == <<"2", "string", "guid", "guid", "guid">>
  <2>1. From(cols, start)
    BY <1>2, <1>10, ColumnsAre
  <2>2. Len(cols) = 5 /\ cols[1] = "2" /\ cols[2] = "string" /\ cols[3] = "guid" /\ cols[4] = "guid" /\ cols[5] = "guid"
    OBVIOUS
  <2> HIDE DEF cols
  <2>3. start[1] = 0 /\ Len(row) = start[5 + 1] /\ \A c \in 1 .. 5 : start[c + 1] = start[c] + Width(cols[c])
    BY <2>1, <2>2
  <2> HIDE DEF From
  <2>5. /\ start[2] = start[1] + 2
        /\ start[3] = start[2] + string
        /\ start[4] = start[3] + guid
        /\ start[5] = start[4] + guid
        /\ start[6] = start[5] + guid
    BY <1>4, <2>2, <2>3
  <2>6. /\ start[2] = 2
        /\ start[3] = 2 + string
        /\ start[4] = 2 + string + guid
        /\ start[5] = 2 + string + guid + guid
        /\ start[6] = 2 + string + guid + guid + guid
    BY <1>3, <2>3, <2>5
  <2>7. Len(row) = 2 + string + guid * 3
    BY <1>3, <2>3, <2>6
  <2> QED
    BY <1>2, <1>5, <1>10, <2>7 DEF RowRead, row
<1>11. CASE t = 1
  <2> DEFINE cols == <<"scope", "string", "string">>
  <2>1. From(cols, start)
    BY <1>2, <1>11, ColumnsAre
  <2>2. Len(cols) = 3 /\ cols[1] = "scope" /\ cols[2] = "string" /\ cols[3] = "string"
    OBVIOUS
  <2> HIDE DEF cols
  <2>3. start[1] = 0 /\ Len(row) = start[3 + 1] /\ \A c \in 1 .. 3 : start[c + 1] = start[c] + Width(cols[c])
    BY <2>1, <2>2
  <2> HIDE DEF From
  <2>5. /\ start[2] = start[1] + scope
        /\ start[3] = start[2] + string
        /\ start[4] = start[3] + string
    BY <1>4, <2>2, <2>3
  <2>6. /\ start[2] = scope
        /\ start[3] = scope + string
        /\ start[4] = scope + string + string
    BY <1>3, <2>3, <2>5
  <2>7. Len(row) = scope + string * 2
    BY <1>3, <2>3, <2>6
  <2> QED
    BY <1>2, <1>5, <1>11, <2>7 DEF RowRead, row
<1>12. CASE t = 2
  <2> DEFINE cols == <<"4", "string", "string", "parent", "field", "method">>
  <2>1. From(cols, start)
    BY <1>2, <1>12, ColumnsAre
  <2>2. Len(cols) = 6 /\ cols[1] = "4" /\ cols[2] = "string" /\ cols[3] = "string" /\ cols[4] = "parent" /\ cols[5] = "field" /\ cols[6] = "method"
    OBVIOUS
  <2> HIDE DEF cols
  <2>3. start[1] = 0 /\ Len(row) = start[6 + 1] /\ \A c \in 1 .. 6 : start[c + 1] = start[c] + Width(cols[c])
    BY <2>1, <2>2
  <2>4. \A c \in 1 .. 6 : row[start[c] + 1] = [width |-> Width(cols[c]), value |-> DotNet!ValueOf(a, t, r, cols[c])]
    BY <2>1, <2>2
  <2> HIDE DEF From
  <2>5. /\ start[2] = start[1] + 4
        /\ start[3] = start[2] + string
        /\ start[4] = start[3] + string
        /\ start[5] = start[4] + parent
        /\ start[6] = start[5] + field
        /\ start[7] = start[6] + method
    BY <1>4, <2>2, <2>3
  <2>6. /\ start[2] = 4
        /\ start[3] = 4 + string
        /\ start[4] = 4 + string + string
        /\ start[5] = 4 + string + string + parent
        /\ start[6] = 4 + string + string + parent + field
        /\ start[7] = 4 + string + string + parent + field + method
    BY <1>3, <2>3, <2>5
  <2>7. Len(row) = 4 + string * 2 + parent + field + method
    BY <1>3, <2>3, <2>6
  <2>8. /\ row[4 + 1] = [width |-> string, value |-> r]
        /\ row[start[6] + 1] = [width |-> method, value |-> DotNet!FirstMethod(a, r)]
    <3>1. /\ row[start[2] + 1] = [width |-> Width(cols[2]), value |-> DotNet!ValueOf(a, t, r, cols[2])]
          /\ row[start[6] + 1] = [width |-> Width(cols[6]), value |-> DotNet!ValueOf(a, t, r, cols[6])]
      BY <2>4
    <3>2. start[2] = 4
      BY <2>6
    <3> QED
      BY <1>4, <1>6, <1>12, <2>2, <3>1, <3>2
  <2>9. start[6] = (4 + string * 2 + parent + field + method) - method
    BY <1>3, <2>6
  <2> QED
    BY <1>2, <1>5, <1>12, <2>7, <2>8, <2>9 DEF RowRead, row, string, method
<1>13. CASE t = 3
  <2> DEFINE cols == <<"field">>
  <2>1. From(cols, start)
    BY <1>2, <1>13, ColumnsAre
  <2>2. Len(cols) = 1 /\ cols[1] = "field"
    OBVIOUS
  <2> HIDE DEF cols
  <2>3. start[1] = 0 /\ Len(row) = start[1 + 1] /\ \A c \in 1 .. 1 : start[c + 1] = start[c] + Width(cols[c])
    BY <2>1, <2>2
  <2> HIDE DEF From
  <2>5. /\ start[2] = start[1] + field
    BY <1>4, <2>2, <2>3
  <2>6. /\ start[2] = field
    BY <1>3, <2>3, <2>5
  <2>7. Len(row) = field
    BY <1>3, <2>3, <2>6
  <2> QED
    BY <1>2, <1>5, <1>13, <2>7 DEF RowRead, row
<1>14. CASE t = 4
  <2> DEFINE cols == <<"2", "string", "blob">>
  <2>1. From(cols, start)
    BY <1>2, <1>14, ColumnsAre
  <2>2. Len(cols) = 3 /\ cols[1] = "2" /\ cols[2] = "string" /\ cols[3] = "blob"
    OBVIOUS
  <2> HIDE DEF cols
  <2>3. start[1] = 0 /\ Len(row) = start[3 + 1] /\ \A c \in 1 .. 3 : start[c + 1] = start[c] + Width(cols[c])
    BY <2>1, <2>2
  <2> HIDE DEF From
  <2>5. /\ start[2] = start[1] + 2
        /\ start[3] = start[2] + string
        /\ start[4] = start[3] + blob
    BY <1>4, <2>2, <2>3
  <2>6. /\ start[2] = 2
        /\ start[3] = 2 + string
        /\ start[4] = 2 + string + blob
    BY <1>3, <2>3, <2>5
  <2>7. Len(row) = 2 + string + blob
    BY <1>3, <2>3, <2>6
  <2> QED
    BY <1>2, <1>5, <1>14, <2>7 DEF RowRead, row
<1>15. CASE t = 5
  <2> DEFINE cols == <<"method">>
  <2>1. From(cols, start)
    BY <1>2, <1>15, ColumnsAre
  <2>2. Len(cols) = 1 /\ cols[1] = "method"
    OBVIOUS
  <2> HIDE DEF cols
  <2>3. start[1] = 0 /\ Len(row) = start[1 + 1] /\ \A c \in 1 .. 1 : start[c + 1] = start[c] + Width(cols[c])
    BY <2>1, <2>2
  <2> HIDE DEF From
  <2>5. /\ start[2] = start[1] + method
    BY <1>4, <2>2, <2>3
  <2>6. /\ start[2] = method
    BY <1>3, <2>3, <2>5
  <2>7. Len(row) = method
    BY <1>3, <2>3, <2>6
  <2> QED
    BY <1>2, <1>5, <1>15, <2>7 DEF RowRead, row
<1>16. CASE t = 6
  <2> DEFINE cols == <<"4", "2", "2", "string", "blob", "param">>
  <2>1. From(cols, start)
    BY <1>2, <1>16, ColumnsAre
  <2>2. Len(cols) = 6 /\ cols[1] = "4" /\ cols[2] = "2" /\ cols[3] = "2" /\ cols[4] = "string" /\ cols[5] = "blob" /\ cols[6] = "param"
    OBVIOUS
  <2> HIDE DEF cols
  <2>3. start[1] = 0 /\ Len(row) = start[6 + 1] /\ \A c \in 1 .. 6 : start[c + 1] = start[c] + Width(cols[c])
    BY <2>1, <2>2
  <2>4. \A c \in 1 .. 6 : row[start[c] + 1] = [width |-> Width(cols[c]), value |-> DotNet!ValueOf(a, t, r, cols[c])]
    BY <2>1, <2>2
  <2> HIDE DEF From
  <2>5. /\ start[2] = start[1] + 4
        /\ start[3] = start[2] + 2
        /\ start[4] = start[3] + 2
        /\ start[5] = start[4] + string
        /\ start[6] = start[5] + blob
        /\ start[7] = start[6] + param
    BY <1>4, <2>2, <2>3
  <2>6. /\ start[2] = 4
        /\ start[3] = 4 + 2
        /\ start[4] = 4 + 2 + 2
        /\ start[5] = 4 + 2 + 2 + string
        /\ start[6] = 4 + 2 + 2 + string + blob
        /\ start[7] = 4 + 2 + 2 + string + blob + param
    BY <1>3, <2>3, <2>5
  <2>7. Len(row) = 4 + 2 + 2 + string + blob + param
    BY <1>3, <2>3, <2>6
  <2>8. row[8 + 1] = [width |-> string, value |-> r]
    <3>1. row[start[4] + 1] = [width |-> Width(cols[4]), value |-> DotNet!ValueOf(a, t, r, cols[4])]
      BY <2>4
    <3>2. start[4] = 8
      BY <2>6
    <3> QED
      BY <1>4, <1>6, <2>2, <3>1, <3>2
  <2> QED
    BY <1>2, <1>5, <1>16, <2>7, <2>8 DEF RowRead, row, string
<1>17. t \in {0, 1, 2, 3, 4, 5, 6}
  OBVIOUS
<1> QED
  BY <1>10, <1>11, <1>12, <1>13, <1>14, <1>15, <1>16, <1>17

LEMMA RowSizeIs ==
  ASSUME NEW t \in 0 .. 6
  PROVE  DotNet!RowSize(t) \in Nat
<1> DEFINE string == DotNet!HeapSize("string")
           guid == DotNet!HeapSize("guid")
           blob == DotNet!HeapSize("blob")
           scope == DotNet!CodedIndexSize({0, 1, 26, 35}, 2)
           parent == DotNet!CodedIndexSize({2, 1, 27}, 2)
           field == DotNet!TableIndexSize(4)
           method == DotNet!TableIndexSize(6)
           param == DotNet!TableIndexSize(8)
<1>1. /\ string \in Nat /\ guid \in Nat /\ blob \in Nat /\ scope \in Nat /\ parent \in Nat
      /\ field \in Nat /\ method \in Nat /\ param \in Nat
  <2>1. \A n : IsSize(n) => n \in Nat
    BY DEF IsSize
  <2> QED
    BY <2>1, IndexSizes
<1>2. /\ DotNet!RowSize(0) = 2 + string + guid * 3
      /\ DotNet!RowSize(1) = scope + string * 2
      /\ DotNet!RowSize(2) = 4 + string * 2 + parent + field + method
      /\ DotNet!RowSize(3) = field
      /\ DotNet!RowSize(4) = 2 + string + blob
      /\ DotNet!RowSize(5) = method
      /\ DotNet!RowSize(6) = 4 + 2 + 2 + string + blob + param
  BY DEF DotNet!RowSize
<1> HIDE DEF string, guid, blob, scope, parent, field, method, param
<1>3. t \in {0, 1, 2, 3, 4, 5, 6}
  OBVIOUS
<1> QED
  BY <1>1, <1>2, <1>3

-----------------------------------------------------------------------------
\* The tables, one after another, and the cells of each row.
RowsOf(a, t)  == [r \in 1 .. DotNet!Rows(a, t) |-> DotNet!Row(a, t, r)]
TableOf(a, t) == DotNet!FlattenSeq(RowsOf(a, t))
Parts(a)      == [t \in 1 .. 7 |-> TableOf(a, t - 1)]
Starts(a)     == CHOOSE start : Flat(Cell, DotNet!Tables(a), Parts(a), start)

LEMMA Within ==
  ASSUME NEW n \in Nat, NEW w \in Nat, NEW r \in 1 .. n, NEW k \in 1 .. w
  PROVE  (r - 1) * w + k \in 1 .. n * w
<1> DEFINE d == n - r
           b == (r - 1) * w
<1>1. d \in Nat /\ b \in Nat /\ d * w \in Nat
  <2>1. d \in Nat /\ r - 1 \in Nat
    OBVIOUS
  <2> HIDE DEF d
  <2> QED
    BY <2>1
<1>2. n * w = b + w + d * w
  <2>1. n = (r - 1) + 1 + d /\ d \in Nat /\ r - 1 \in Nat
    OBVIOUS
  <2> HIDE DEF d
  <2>2. \A x, y \in Nat : (x + 1 + y) * w = x * w + w + y * w
    OBVIOUS
  <2> QED
    BY <2>1, <2>2
<1> DEFINE e == d * w
           l == n * w
<1> HIDE DEF b, d
<1>3. e \in Nat /\ l = b + w + e /\ b \in Nat
  BY <1>1, <1>2
<1> HIDE DEF e, l
<1>4. b + k \in 1 .. l
  BY <1>3
<1> QED
  BY <1>4 DEF b, l

LEMMA TableIs ==
  ASSUME Wide \in Nat, NEW a \in Assembled, input.assembly = a, NEW t \in 0 .. 6
  PROVE  /\ TableOf(a, t) \in Seq(Cell)
         /\ Len(TableOf(a, t)) = DotNet!Rows(a, t) * DotNet!RowSize(t)
         /\ \A r \in 1 .. DotNet!Rows(a, t) : \A k \in 1 .. DotNet!RowSize(t) :
              TableOf(a, t)[(r - 1) * DotNet!RowSize(t) + k] = DotNet!Row(a, t, r)[k]
<1> DEFINE n == DotNet!Rows(a, t)
           w == DotNet!RowSize(t)
           rows == RowsOf(a, t)
           R(r) == DotNet!Row(a, t, r)
<1>1. n \in Nat /\ w \in Nat
  BY AssemblyIs, RowSizeIs
<1>2. \A r \in 1 .. n : R(r) \in Seq(Cell) /\ Len(R(r)) = w
  BY RowIsRead DEF RowRead
<1>3. rows = [r \in 1 .. n |-> R(r)]
  BY DEF RowsOf
<1>4. TableOf(a, t) = DotNet!FlattenSeq(rows)
  BY DEF TableOf
<1> HIDE DEF n, w, rows, R
<1>5. rows \in Seq(Seq(Cell)) /\ Len(rows) = n /\ \A r \in 1 .. n : rows[r] = R(r) /\ Len(rows[r]) = w
  BY <1>1, <1>2, <1>3
<1>6. Blocks(Cell, TableOf(a, t), rows, w)
  BY <1>1, <1>4, <1>5, Uniform
<1>7. /\ TableOf(a, t) \in Seq(Cell) /\ Len(TableOf(a, t)) = n * w
      /\ \A r \in 1 .. n : \A k \in 1 .. w : TableOf(a, t)[(r - 1) * w + k] = R(r)[k]
  BY <1>5, <1>6 DEF Blocks
<1> QED
  BY <1>7 DEF n, w, R

\* The tables begin where the reader goes, and end with the file.
LEMMA StartsAre ==
  ASSUME Wide \in Nat, NEW a \in Assembled, input.assembly = a
  PROVE  /\ DotNet!Tables(a) \in Seq(Cell) /\ Starts(a) \in [1 .. 8 -> Nat] /\ Starts(a)[1] = 0
         /\ Len(DotNet!Tables(a)) = Starts(a)[8]
         /\ \A t \in 0 .. 6 :
              /\ Starts(a)[t + 2] = Starts(a)[t + 1] + DotNet!Rows(a, t) * DotNet!RowSize(t)
              /\ Starts(a)[t + 2] <= Starts(a)[8]
              /\ \A r \in 1 .. DotNet!Rows(a, t) : \A k \in 1 .. DotNet!RowSize(t) :
                   /\ DotNet!Tables(a)[Starts(a)[t + 1] + ((r - 1) * DotNet!RowSize(t) + k)] = DotNet!Row(a, t, r)[k]
                   /\ Starts(a)[t + 1] + ((r - 1) * DotNet!RowSize(t) + k) \in 1 .. Starts(a)[t + 2]
<1> DEFINE cells == DotNet!Tables(a)
           parts == Parts(a)
           start == Starts(a)
           N(t) == DotNet!Rows(a, t)
           W(t) == DotNet!RowSize(t)
           T(t) == TableOf(a, t)
           R(t, r) == DotNet!Row(a, t, r)
<1>1. \A t \in 0 .. 6 :
        /\ T(t) \in Seq(Cell) /\ Len(T(t)) = N(t) * W(t) /\ N(t) \in Nat /\ W(t) \in Nat
        /\ \A r \in 1 .. N(t) : \A k \in 1 .. W(t) : T(t)[(r - 1) * W(t) + k] = R(t, r)[k]
  BY TableIs, AssemblyIs, RowSizeIs
<1>2. parts = [t \in 1 .. 7 |-> T(t - 1)]
  BY DEF Parts
<1>3. cells = DotNet!FlattenSeq(parts)
  BY DEF DotNet!Tables, Parts, TableOf, RowsOf
<1> HIDE DEF cells, parts, N, W, T, R
<1>4. parts \in Seq(Seq(Cell)) /\ Len(parts) = 7 /\ \A t \in 0 .. 6 : parts[t + 1] = T(t)
  <2>1. ASSUME NEW t \in 1 .. 7 PROVE T(t - 1) \in Seq(Cell)
    <3>1. t - 1 \in 0 .. 6
      OBVIOUS
    <3> QED
      BY <1>1, <3>1
  <2>2. ASSUME NEW t \in 0 .. 6 PROVE parts[t + 1] = T(t)
    <3>1. t + 1 \in 1 .. 7 /\ (t + 1) - 1 = t
      OBVIOUS
    <3> QED
      BY <1>2, <3>1
  <2> QED
    BY <1>2, <2>1, <2>2
<1>5. Flat(Cell, cells, parts, start)
  <2>1. \E s : Flat(Cell, cells, parts, s)
    BY <1>3, <1>4, Flattened
  <2>2. start = CHOOSE s : Flat(Cell, cells, parts, s)
    BY DEF Starts, cells, parts
  <2> HIDE DEF start
  <2> QED
    BY <2>1, <2>2
<1> HIDE DEF start
<1>6. /\ cells \in Seq(Cell) /\ start \in [1 .. 8 -> Nat] /\ start[1] = 0 /\ Len(cells) = start[8]
      /\ \A i \in 1 .. 7 : /\ start[i + 1] = start[i] + Len(parts[i])
                           /\ \A k \in 1 .. Len(parts[i]) : cells[start[i] + k] = parts[i][k]
  <2>1. /\ cells \in Seq(Cell) /\ start \in [1 .. Len(parts) + 1 -> Nat] /\ start[1] = 0 /\ Len(cells) = start[Len(parts) + 1]
        /\ \A i \in 1 .. Len(parts) : /\ start[i + 1] = start[i] + Len(parts[i])
                                      /\ \A k \in 1 .. Len(parts[i]) : cells[start[i] + k] = parts[i][k]
    BY <1>5 DEF Flat
  <2>2. Len(parts) = 7 /\ Len(parts) + 1 = 8
    BY <1>4
  <2> QED
    BY <2>1, <2>2
<1>7. ASSUME NEW t \in 0 .. 6
      PROVE  /\ start[t + 2] = start[t + 1] + N(t) * W(t) /\ start[t + 1] \in Nat
             /\ N(t) * W(t) \in Nat
             /\ \A r \in 1 .. N(t) : \A k \in 1 .. W(t) :
                  /\ cells[start[t + 1] + ((r - 1) * W(t) + k)] = R(t, r)[k]
                  /\ start[t + 1] + ((r - 1) * W(t) + k) \in 1 .. start[t + 2]
  <2>1. t + 1 \in 1 .. 7 /\ (t + 1) + 1 = t + 2 /\ t + 1 \in 1 .. 8
    OBVIOUS
  <2>2. /\ start[t + 2] = start[t + 1] + Len(T(t)) /\ start[t + 1] \in Nat
        /\ \A k \in 1 .. Len(T(t)) : cells[start[t + 1] + k] = T(t)[k]
    BY <1>4, <1>6, <2>1
  <2>3. N(t) * W(t) \in Nat
    <3>1. N(t) \in Nat /\ W(t) \in Nat
      BY <1>1
    <3> QED
      BY <3>1
  <2>4. ASSUME NEW r \in 1 .. N(t), NEW k \in 1 .. W(t)
        PROVE  /\ cells[start[t + 1] + ((r - 1) * W(t) + k)] = R(t, r)[k]
               /\ start[t + 1] + ((r - 1) * W(t) + k) \in 1 .. start[t + 2]
    <3> DEFINE j == (r - 1) * W(t) + k
               l == N(t) * W(t)
    <3>1. j \in 1 .. l
      <4>1. N(t) \in Nat /\ W(t) \in Nat
        BY <1>1
      <4> QED
        BY <4>1, Within
    <3>2. T(t)[j] = R(t, r)[k] /\ Len(T(t)) = l
      BY <1>1
    <3>3. l \in Nat
      BY <2>3
    <3> HIDE DEF j, l
    <3>4. cells[start[t + 1] + j] = R(t, r)[k]
      BY <2>2, <3>1, <3>2
    <3>5. start[t + 1] + j \in 1 .. start[t + 2]
      BY <2>2, <3>1, <3>2, <3>3
    <3> QED
      BY <3>4, <3>5 DEF j
  <2> QED
    BY <1>1, <2>2, <2>3, <2>4
<1>8. \A t \in 0 .. 6 : start[t + 2] <= start[8]
  <2>1. ASSUME NEW t \in 0 .. 6 PROVE start[t + 1] <= start[t + 2]
    <3>1. start[t + 2] = start[t + 1] + N(t) * W(t) /\ start[t + 1] \in Nat /\ N(t) * W(t) \in Nat
      BY <1>7
    <3> DEFINE e == N(t) * W(t)
    <3> HIDE DEF e
    <3>2. start[t + 2] = start[t + 1] + e /\ e \in Nat
      BY <3>1 DEF e
    <3> QED
      BY <3>1, <3>2
  <2>2. /\ start[1 + 1] <= start[1 + 2] /\ start[2 + 1] <= start[2 + 2] /\ start[3 + 1] <= start[3 + 2]
        /\ start[4 + 1] <= start[4 + 2] /\ start[5 + 1] <= start[5 + 2] /\ start[6 + 1] <= start[6 + 2]
    BY <2>1
  <2>3. /\ start[2] \in Nat /\ start[3] \in Nat /\ start[4] \in Nat /\ start[5] \in Nat
        /\ start[6] \in Nat /\ start[7] \in Nat /\ start[8] \in Nat
    BY <1>6
  <2>4. /\ start[2] <= start[3] /\ start[3] <= start[4] /\ start[4] <= start[5]
        /\ start[5] <= start[6] /\ start[6] <= start[7] /\ start[7] <= start[8]
    BY <2>2
  <2>5. \A i \in {2, 3, 4, 5, 6, 7, 8} : start[i] <= start[8]
    BY <2>3, <2>4
  <2>6. \A t \in 0 .. 6 : t + 2 \in {2, 3, 4, 5, 6, 7, 8}
    OBVIOUS
  <2> QED
    BY <2>5, <2>6
<1>9. /\ cells \in Seq(Cell) /\ start \in [1 .. 8 -> Nat] /\ start[1] = 0 /\ Len(cells) = start[8]
      /\ \A t \in 0 .. 6 :
              /\ start[t + 2] = start[t + 1] + N(t) * W(t)
              /\ start[t + 2] <= start[8]
              /\ \A r \in 1 .. N(t) : \A k \in 1 .. W(t) :
                   /\ cells[start[t + 1] + ((r - 1) * W(t) + k)] = R(t, r)[k]
                   /\ start[t + 1] + ((r - 1) * W(t) + k) \in 1 .. start[t + 2]
  BY <1>6, <1>7, <1>8
<1> QED
  BY <1>9 DEF cells, start, N, W, R

-----------------------------------------------------------------------------
\* What the tables of types and of methods give, and what is printed before type p.
TypesOf(a)    == [r \in 1 .. Len(a.types) |-> [name |-> r, first |-> DotNet!FirstMethod(a, r)]]
MethodList(a) == [r \in 1 .. DotNet!Rows(a, 6) |-> r]
PrintedTo(a, p) ==
  [i \in 1 .. p - 2 |->
     [type |-> i + 1,
      methods |-> [k \in 1 .. a.types[i + 1].methods |-> DotNet!FirstMethod(a, i + 1) + k - 1]]]

Stored(a) == Len(DotNet!Tables(a)) - a.cut

\* Before table t the cursor is where that table begins, and what it passed is stored.
AtTable(a, t) ==
  /\ Len(stack) = 7 - t /\ stack \in Seq(0 .. 6) /\ \A i \in 1 .. 7 - t : stack[i] = t + i - 1
  /\ pos = Starts(a)[t + 1] + 1 /\ Starts(a)[t + 1] <= Stored(a)
  /\ out = [types   |-> IF t > 2 THEN TypesOf(a) ELSE <<>>,
            methods |-> IF t > 6 THEN MethodList(a) ELSE <<>>,
            printed |-> <<>>]

AtType(a) ==
  /\ a.cut = 0 /\ pos \in 1 .. Len(a.types) + 1
  /\ out = [types |-> TypesOf(a), methods |-> MethodList(a), printed |-> PrintedTo(a, pos)]

Assembly(a) ==
  input = [assembly |-> a, bytes |-> SubSeq(DotNet!Tables(a), 1, Stored(a))]

NetInv ==
  \E a \in Assembled :
    /\ Assembly(a)
    /\ \/ status = "tables" /\ \E t \in 0 .. 7 : AtTable(a, t)
       \/ status = "types" /\ AtType(a)
       \/ status = "done" /\ AtType(a) /\ pos > Len(a.types)
       \/ status = "end" /\ a.cut > 0

LEMMA NetInit ==
  ASSUME DotNet!AssembliesAssumption, DotNet!Init
  PROVE  NetInv
<1>1. PICK a \in Assemblies : Assembly(a)
  BY DEF DotNet!Init, Assembly, Stored
<1>2. a \in Assembled
  BY DEF DotNet!AssembliesAssumption, Assembled
<1>3. Wide \in Nat /\ input.assembly = a
  BY <1>1 DEF DotNet!AssembliesAssumption, Assembly
<1>4. Starts(a)[1] = 0 /\ Stored(a) \in Nat
  <2>1. Starts(a)[1] = 0 /\ Len(DotNet!Tables(a)) \in Nat
    BY <1>2, <1>3, StartsAre
  <2>2. a.cut \in 0 .. Len(DotNet!Tables(a))
    BY <1>2 DEF Assembled
  <2> QED
    BY <2>1, <2>2 DEF Stored
<1>5. /\ pos = 1 /\ stack = <<0, 1, 2, 3, 4, 5, 6>> /\ status = "tables"
      /\ out = [types |-> <<>>, methods |-> <<>>, printed |-> <<>>]
  BY DEF DotNet!Init
<1>6. Len(stack) = 7 - 0 /\ stack \in Seq(0 .. 6) /\ \A i \in 1 .. 7 - 0 : stack[i] = 0 + i - 1
  <2> DEFINE s == <<0, 1, 2, 3, 4, 5, 6>>
  <2>1. Len(s) = 7 /\ s \in Seq(0 .. 6)
    OBVIOUS
  <2>2. s[1] = 0 /\ s[2] = 1 /\ s[3] = 2 /\ s[4] = 3 /\ s[5] = 4 /\ s[6] = 5 /\ s[7] = 6
    OBVIOUS
  <2>3. stack = s
    BY <1>5
  <2> HIDE DEF s
  <2>4. \A i \in 1 .. 7 : i \in {1, 2, 3, 4, 5, 6, 7}
    OBVIOUS
  <2>5. \A i \in {1, 2, 3, 4, 5, 6, 7} : stack[i] = 0 + i - 1
    BY <2>2, <2>3
  <2> QED
    BY <2>1, <2>3, <2>4, <2>5
<1>7. 0 \in 0 .. 7 /\ ~(0 > 2) /\ ~(0 > 6) /\ 0 + 1 = 1 /\ pos = Starts(a)[1] + 1 /\ Starts(a)[1] <= Stored(a)
  BY <1>4, <1>5
<1>8. AtTable(a, 0)
  BY <1>5, <1>6, <1>7 DEF AtTable
<1> QED
  BY <1>1, <1>2, <1>5, <1>7, <1>8 DEF NetInv

\* What is stored before the end of a table is what was written there.
LEMMA NetRead ==
  ASSUME Wide \in Nat, NEW a \in Assembled, Assembly(a), NEW t \in 0 .. 6, AtTable(a, t)
  PROVE  /\ stack # <<>> /\ DotNet!Table = t /\ DotNet!Count(t) = DotNet!Rows(a, t)
         /\ Tail(stack) \in Seq(0 .. 6) /\ Len(Tail(stack)) = 7 - (t + 1)
         /\ \A i \in 1 .. 7 - (t + 1) : Tail(stack)[i] = (t + 1) + i - 1
         /\ DotNet!End = Starts(a)[t + 2] + 1 /\ Len(input.bytes) = Stored(a) /\ Stored(a) \in Nat
         /\ Starts(a)[t + 2] \in Nat
         /\ \A i \in 1 .. Stored(a) : input.bytes[i] = DotNet!Tables(a)[i]
<1> DEFINE s == Starts(a)
           n == DotNet!Rows(a, t)
           w == DotNet!RowSize(t)
           l == Stored(a)
           cells == DotNet!Tables(a)
<1>1. /\ input.assembly = a /\ input.bytes = SubSeq(cells, 1, l)
  BY DEF Assembly
<1>2. /\ cells \in Seq(Cell) /\ s \in [1 .. 8 -> Nat] /\ s[t + 2] = s[t + 1] + n * w
  BY <1>1, StartsAre
<1>3. n \in Nat /\ w \in Nat
  BY AssemblyIs, RowSizeIs
<1>4. a.cut \in 0 .. Len(cells) /\ l = Len(cells) - a.cut
  BY DEF Assembled, Stored
<1>5. /\ Len(stack) = 7 - t /\ stack \in Seq(0 .. 6) /\ \A i \in 1 .. 7 - t : stack[i] = t + i - 1
      /\ pos = s[t + 1] + 1
  BY DEF AtTable
<1>6. DotNet!Count(t) = n
  BY <1>1 DEF DotNet!Count
<1> HIDE DEF s, n, w, l, cells
<1>7. stack # <<>> /\ Head(stack) = t
  <2>1. Len(stack) > 0 /\ 1 \in 1 .. 7 - t
    BY <1>5
  <2>2. stack # <<>> /\ Head(stack) = stack[1]
    BY <1>5, <2>1
  <2>3. stack[1] = t + 1 - 1
    BY <1>5, <2>1
  <2> QED
    BY <2>2, <2>3
<1>8. DotNet!Table = t
  BY <1>7 DEF DotNet!Table
<1>9. /\ Tail(stack) \in Seq(0 .. 6) /\ Len(Tail(stack)) = 7 - (t + 1)
      /\ \A i \in 1 .. 7 - (t + 1) : Tail(stack)[i] = (t + 1) + i - 1
  <2>1. Tail(stack) \in Seq(0 .. 6) /\ Len(Tail(stack)) = Len(stack) - 1
        /\ \A i \in 1 .. Len(stack) - 1 : Tail(stack)[i] = stack[i + 1]
    BY <1>5, <1>7
  <2>2. Len(Tail(stack)) = 7 - (t + 1)
    BY <1>5, <2>1
  <2>3. ASSUME NEW i \in 1 .. 7 - (t + 1) PROVE Tail(stack)[i] = (t + 1) + i - 1
    <3>1. i \in 1 .. Len(stack) - 1 /\ i + 1 \in 1 .. 7 - t /\ t + (i + 1) - 1 = (t + 1) + i - 1
      BY <1>5
    <3> QED
      BY <1>5, <2>1, <3>1
  <2> QED
    BY <2>1, <2>2, <2>3
<1>10. DotNet!End = s[t + 2] + 1
  <2>1. DotNet!End = pos + n * w
    BY <1>6, <1>8 DEF DotNet!End, w
  <2>2. s[t + 1] \in Nat
    <3>1. t + 1 \in 1 .. 8
      OBVIOUS
    <3> QED
      BY <1>2, <3>1
  <2> DEFINE e == n * w
  <2>3. e \in Nat /\ DotNet!End = pos + e /\ s[t + 2] = s[t + 1] + e
    BY <1>2, <1>3, <2>1
  <2> HIDE DEF e
  <2> QED
    BY <1>5, <2>2, <2>3
<1>11. l \in Nat /\ l <= Len(cells) /\ Len(cells) \in Nat
  <2>1. Len(cells) \in Nat
    BY <1>2
  <2> QED
    BY <1>4, <2>1
<1>12. input.bytes \in Seq(Cell) /\ Len(input.bytes) = l /\ \A i \in 1 .. l : input.bytes[i] = cells[i]
  <2> DEFINE given == input.bytes
  <2>1. cells \in Seq(Cell) /\ given = SubSeq(cells, 1, l)
    BY <1>1, <1>2
  <2> HIDE DEF given, cells, l
  <2>2. SubSeq(cells, 1, l) \in Seq(Cell) /\ Len(SubSeq(cells, 1, l)) = l
    BY <1>11, <2>1
  <2>3. \A i \in 1 .. l : SubSeq(cells, 1, l)[i] = cells[i]
    BY <1>11, <2>1
  <2> QED
    BY <2>1, <2>2, <2>3 DEF given
<1>13. s[t + 2] \in Nat
  <2>1. t + 2 \in 1 .. 8
    OBVIOUS
  <2> QED
    BY <1>2, <2>1
<1> QED
  BY <1>6, <1>7, <1>8, <1>9, <1>10, <1>11, <1>12, <1>13 DEF s, n, l, cells

\* What the reader finds in the rows of the table that it is at.
LEMMA NetCells ==
  ASSUME Wide \in Nat, NEW a \in Assembled, Assembly(a), NEW t \in 0 .. 6, AtTable(a, t),
         Starts(a)[t + 2] <= Stored(a), NEW r \in 1 .. DotNet!Rows(a, t), NEW k \in 1 .. DotNet!RowSize(t)
  PROVE  input.bytes[pos + (r - 1) * DotNet!RowSize(t) + (k - 1)] = DotNet!Row(a, t, r)[k]
<1> DEFINE s == Starts(a)
           w == DotNet!RowSize(t)
           n == DotNet!Rows(a, t)
           cells == DotNet!Tables(a)
           b == (r - 1) * w
           at == s[t + 1] + (b + k)
           R == DotNet!Row(a, t, r)
<1>1. input.assembly = a
  BY DEF Assembly
<1>2. cells[at] = R[k] /\ at \in 1 .. s[t + 2] /\ s \in [1 .. 8 -> Nat]
  BY <1>1, StartsAre
<1>3. \A i \in 1 .. Stored(a) : input.bytes[i] = cells[i]
  BY NetRead
<1>4. Stored(a) \in Nat /\ s[t + 2] \in Nat /\ s[t + 2] <= Stored(a)
  BY NetRead
<1>5. n \in Nat /\ w \in Nat
  BY <1>1, AssemblyIs, RowSizeIs
<1>6. pos = s[t + 1] + 1
  BY DEF AtTable
<1>7. b \in Nat
  <2>1. r - 1 \in Nat
    BY <1>5
  <2> QED
    BY <1>5, <2>1
<1>8. k \in Nat /\ s[t + 1] \in Nat
  <2>1. t + 1 \in 1 .. 8
    OBVIOUS
  <2> QED
    BY <1>2, <1>5, <2>1
<1> HIDE DEF b, s, w, n, cells, R
<1>9. pos + b + (k - 1) = at
  BY <1>6, <1>7, <1>8
<1> HIDE DEF at
<1>10. at \in 1 .. Stored(a)
  BY <1>2, <1>4
<1>11. input.bytes[at] = R[k]
  BY <1>2, <1>3, <1>10
<1> QED
  BY <1>9, <1>11 DEF b, w, R

LEMMA TypesAreRead ==
  ASSUME Wide \in Nat, NEW a \in Assembled, Assembly(a), AtTable(a, 2), Starts(a)[2 + 2] <= Stored(a),
         NEW r \in 1 .. DotNet!Rows(a, 2)
  PROVE  LET size == DotNet!RowSize(2)
             list == DotNet!TableIndexSize(6)
             row  == pos + (r - 1) * size
         IN  /\ DotNet!Read(row + 4, DotNet!HeapSize("string")) = r
             /\ DotNet!Read(row + (size - list), list) = DotNet!FirstMethod(a, r)
<1> DEFINE size == DotNet!RowSize(2)
           list == DotNet!TableIndexSize(6)
           string == DotNet!HeapSize("string")
           b == (r - 1) * size
           R == DotNet!Row(a, 2, r)
<1>1. input.assembly = a
  BY DEF Assembly
<1>2. /\ R[4 + 1] = [width |-> string, value |-> r]
      /\ R[size - list + 1] = [width |-> list, value |-> DotNet!FirstMethod(a, r)]
  <2>1. RowRead(a, 2, r)
    BY <1>1, RowIsRead
  <2> QED
    BY <2>1 DEF RowRead
<1>3. 5 \in 1 .. size /\ size - list + 1 \in 1 .. size /\ size \in Nat /\ list \in Nat
  <2> DEFINE parent == DotNet!CodedIndexSize({2, 1, 27}, 2)
             field == DotNet!TableIndexSize(4)
  <2>1. IsSize(list) /\ IsSize(string) /\ IsSize(parent) /\ IsSize(field)
    BY IndexSizes
  <2>2. size = 4 + string * 2 + parent + field + list
    BY DEF DotNet!RowSize
  <2> HIDE DEF size, list, string, parent, field
  <2> QED
    BY <2>1, <2>2 DEF IsSize
<1>4. \A k \in 1 .. size : input.bytes[pos + b + (k - 1)] = R[k]
  BY NetCells
<1>5. pos \in Nat /\ b \in Nat
  <2>1. Starts(a) \in [1 .. 8 -> Nat] /\ pos = Starts(a)[2 + 1] + 1
    BY <1>1, StartsAre DEF AtTable
  <2>2. pos \in Nat
    BY <2>1
  <2>3. DotNet!Rows(a, 2) \in Nat
    BY AssemblyIs
  <2>4. r - 1 \in Nat
    BY <2>3
  <2> QED
    BY <1>3, <2>2, <2>4
<1> HIDE DEF size, list, string, b, R
<1>6. input.bytes[pos + b + 4] = [width |-> string, value |-> r]
  <2>1. 5 - 1 = 4
    OBVIOUS
  <2> QED
    BY <1>2, <1>3, <1>4, <2>1
<1>7. input.bytes[pos + b + (size - list)] = [width |-> list, value |-> DotNet!FirstMethod(a, r)]
  <2>1. (size - list + 1) - 1 = size - list
    BY <1>3
  <2> QED
    BY <1>2, <1>3, <1>4, <2>1
<1>8. DotNet!Read(pos + b + 4, string) = r
  BY <1>6 DEF DotNet!Read
<1>9. DotNet!Read(pos + b + (size - list), list) = DotNet!FirstMethod(a, r)
  BY <1>7 DEF DotNet!Read
<1> QED
  BY <1>8, <1>9 DEF size, list, string, b

LEMMA MethodsAreRead ==
  ASSUME Wide \in Nat, NEW a \in Assembled, Assembly(a), AtTable(a, 6), Starts(a)[6 + 2] <= Stored(a),
         NEW r \in 1 .. DotNet!Rows(a, 6)
  PROVE  DotNet!Read(pos + (r - 1) * DotNet!RowSize(6) + 8, DotNet!HeapSize("string")) = r
<1> DEFINE size == DotNet!RowSize(6)
           string == DotNet!HeapSize("string")
           b == (r - 1) * size
           R == DotNet!Row(a, 6, r)
<1>1. input.assembly = a
  BY DEF Assembly
<1>2. R[8 + 1] = [width |-> string, value |-> r]
  <2>1. RowRead(a, 6, r)
    BY <1>1, RowIsRead
  <2> QED
    BY <2>1 DEF RowRead
<1>3. 9 \in 1 .. size
  <2> DEFINE blob == DotNet!HeapSize("blob")
             param == DotNet!TableIndexSize(8)
  <2>1. IsSize(string) /\ IsSize(blob) /\ IsSize(param)
    BY IndexSizes
  <2>2. size = 4 + 2 + 2 + string + blob + param
    BY DEF DotNet!RowSize
  <2> HIDE DEF size, string, blob, param
  <2> QED
    BY <2>1, <2>2 DEF IsSize
<1>4. \A k \in 1 .. size : input.bytes[pos + b + (k - 1)] = R[k]
  BY NetCells
<1> HIDE DEF size, string, b, R
<1>5. input.bytes[pos + b + 8] = [width |-> string, value |-> r]
  <2>1. 9 - 1 = 8
    OBVIOUS
  <2> QED
    BY <1>2, <1>3, <1>4, <2>1
<1>6. DotNet!Read(pos + b + 8, string) = r
  BY <1>5 DEF DotNet!Read
<1> QED
  BY <1>6 DEF size, string, b

-----------------------------------------------------------------------------
\* What a whole table leads to.
Passed(a, t) == t \in 0 .. 6 /\ Assembly(a) /\ AtTable(a, t) /\ Starts(a)[t + 2] <= Stored(a)

LEMMA NetPasses ==
  ASSUME Wide \in Nat, NEW a \in Assembled, NEW t \in 0 .. 6, Assembly(a), AtTable(a, t), DotNet!Fits
  PROVE  Passed(a, t)
<1> DEFINE e == Starts(a)[t + 2]
           l == Stored(a)
<1>1. DotNet!End = e + 1 /\ Len(input.bytes) = l /\ l \in Nat /\ e \in Nat
  BY NetRead
<1>2. DotNet!End <= Len(input.bytes) + 1
  BY DEF DotNet!Fits
<1> HIDE DEF e, l
<1>3. e <= l
  BY <1>1, <1>2
<1> QED
  BY <1>3 DEF Passed, e, l

LEMMA NetMoves ==
  ASSUME Wide \in Nat, NEW a \in Assembled, NEW t \in 0 .. 6, Passed(a, t),
         pos' = Starts(a)[t + 2] + 1, stack' = Tail(stack),
         out' = [types   |-> IF t + 1 > 2 THEN TypesOf(a) ELSE <<>>,
                 methods |-> IF t + 1 > 6 THEN MethodList(a) ELSE <<>>,
                 printed |-> <<>>]
  PROVE  AtTable(a, t + 1)'
<1>1. /\ Len(stack') = 7 - (t + 1) /\ stack' \in Seq(0 .. 6)
      /\ \A i \in 1 .. 7 - (t + 1) : stack'[i] = (t + 1) + i - 1
  BY NetRead DEF Passed
<1>2. (t + 1) + 1 = t + 2
  OBVIOUS
<1>3. pos' = Starts(a)[(t + 1) + 1] + 1 /\ Starts(a)[(t + 1) + 1] <= Stored(a)
  BY <1>2 DEF Passed
<1>4. Starts(a)' = Starts(a) /\ Stored(a)' = Stored(a) /\ TypesOf(a)' = TypesOf(a) /\ MethodList(a)' = MethodList(a)
  BY DEF Starts, Stored, TypesOf, MethodList, Parts, TableOf, RowsOf
<1> QED
  BY <1>1, <1>3 DEF AtTable

LEMMA NetSkips ==
  ASSUME Wide \in Nat, NEW a \in Assembled, NEW t \in 0 .. 6, Assembly(a), AtTable(a, t), DotNet!SkipTable
  PROVE  AtTable(a, t + 1)'
<1>1. Passed(a, t)
  BY NetPasses DEF DotNet!SkipTable
<1>2. DotNet!Table = t /\ DotNet!End = Starts(a)[t + 2] + 1
  BY NetRead
<1>3. pos' = Starts(a)[t + 2] + 1 /\ stack' = Tail(stack) /\ out' = out /\ t \notin {2, 6}
  BY <1>2 DEF DotNet!SkipTable
<1>4. (t + 1 > 2 <=> t > 2) /\ (t + 1 > 6 <=> t > 6)
  BY <1>3
<1>5. out' = [types   |-> IF t + 1 > 2 THEN TypesOf(a) ELSE <<>>,
              methods |-> IF t + 1 > 6 THEN MethodList(a) ELSE <<>>,
              printed |-> <<>>]
  BY <1>3, <1>4 DEF AtTable
<1> QED
  BY <1>1, <1>3, <1>5, NetMoves

LEMMA NetTypes ==
  ASSUME Wide \in Nat, NEW a \in Assembled, NEW t \in 0 .. 6, Assembly(a), AtTable(a, t), DotNet!ReadTypes
  PROVE  AtTable(a, t + 1)'
<1> DEFINE size == DotNet!RowSize(2)
           list == DotNet!TableIndexSize(6)
           string == DotNet!HeapSize("string")
           parent == DotNet!CodedIndexSize({2, 1, 27}, 2)
           field == DotNet!TableIndexSize(4)
           n == DotNet!Count(2)
           read(r) == [name |-> DotNet!Read(pos + (r - 1) * size + 4, string),
                       first |-> DotNet!Read(pos + (r - 1) * size + (size - list), list)]
           s == 4 + 2 * string + parent + field + list
<1>1. DotNet!Table = t /\ DotNet!Table = 2 /\ DotNet!Fits
  BY NetRead DEF DotNet!ReadTypes
<1>2. t = 2
  BY <1>1
<1>3. Passed(a, 2)
  BY <1>1, <1>2, NetPasses
<1>4. n = DotNet!Rows(a, 2) /\ DotNet!End = Starts(a)[2 + 2] + 1 /\ DotNet!Table = 2
  BY <1>2, NetRead
<1>5. size = s
  <2>1. size = 4 + string * 2 + parent + field + list
    BY DEF DotNet!RowSize
  <2>2. string \in {2, 4}
    BY IndexSizes DEF IsSize
  <2> HIDE DEF string, parent, field, list, size
  <2>3. string * 2 = 2 * string
    BY <2>2
  <2> QED
    BY <2>1, <2>3
<1>6. /\ out' = [out EXCEPT !.types = [r \in 1 .. n |->
                  [name |-> DotNet!Read(pos + (r - 1) * s + 4, string),
                   first |-> DotNet!Read(pos + (r - 1) * s + (s - list), list)]]]
      /\ pos' = pos + n * s /\ stack' = Tail(stack)
  <2>1. Starts(a) \in [1 .. 8 -> Nat] /\ pos = Starts(a)[2 + 1] + 1
    BY <1>2, StartsAre DEF AtTable, Assembly
  <2>2. pos \in Nat /\ n \in Nat
    BY <1>4, <2>1, AssemblyIs
  <2>3. string \in Nat /\ parent \in Nat /\ field \in Nat /\ list \in Nat
    BY IndexSizes DEF IsSize
  <2>4. /\ out' = [out EXCEPT !.types = [r \in 1 .. n |->
                    [name |-> DotNet!Read((pos + (r - 1) * s) + 4, string),
                     first |-> DotNet!Read((pos + (r - 1) * s) + (s - list), list)]]]
        /\ pos' = pos + n * s /\ stack' = Tail(stack)
    BY ZenonT(30) DEF DotNet!ReadTypes
  <2> QED
    BY <2>4
<1>7. pos' = DotNet!End
  BY <1>4, <1>5, <1>6 DEF DotNet!End
<1>8. \A r \in 1 .. n : read(r) = [name |-> r, first |-> DotNet!FirstMethod(a, r)]
  BY <1>3, <1>4, TypesAreRead DEF Passed
<1>9. out' = [out EXCEPT !.types = [r \in 1 .. n |-> read(r)]]
  BY <1>5, <1>6
<1>10. TypesOf(a) = [r \in 1 .. n |-> [name |-> r, first |-> DotNet!FirstMethod(a, r)]]
  BY <1>4 DEF TypesOf, DotNet!Rows
<1>11. out = [types |-> <<>>, methods |-> <<>>, printed |-> <<>>]
  BY <1>2 DEF AtTable
<1> HIDE DEF read, n
<1>12. [r \in 1 .. n |-> read(r)] = TypesOf(a)
  BY <1>8, <1>10
<1>13. out' = [types   |-> IF 2 + 1 > 2 THEN TypesOf(a) ELSE <<>>,
               methods |-> IF 2 + 1 > 6 THEN MethodList(a) ELSE <<>>,
               printed |-> <<>>]
  <2>1. out' = [out EXCEPT !.types = TypesOf(a)]
    BY <1>9, <1>12
  <2>2. out' = [types |-> TypesOf(a), methods |-> <<>>, printed |-> <<>>]
    BY <1>11, <2>1
  <2>3. 2 + 1 > 2 /\ ~(2 + 1 > 6)
    OBVIOUS
  <2> QED
    BY <2>2, <2>3
<1>14. pos' = Starts(a)[2 + 2] + 1 /\ stack' = Tail(stack)
  BY <1>4, <1>6, <1>7
<1>15. AtTable(a, 2 + 1)'
  BY <1>2, <1>3, <1>13, <1>14, NetMoves
<1> QED
  BY <1>2, <1>15

LEMMA NetMethods ==
  ASSUME Wide \in Nat, NEW a \in Assembled, NEW t \in 0 .. 6, Assembly(a), AtTable(a, t), DotNet!ReadMethods
  PROVE  AtTable(a, t + 1)'
<1> DEFINE size == DotNet!RowSize(6)
           string == DotNet!HeapSize("string")
           n == DotNet!Count(6)
           read(r) == DotNet!Read(pos + (r - 1) * size + 8, string)
<1>1. DotNet!Table = t /\ DotNet!Table = 6 /\ DotNet!Fits
  BY NetRead DEF DotNet!ReadMethods
<1>2. t = 6
  BY <1>1
<1>3. Passed(a, 6)
  BY <1>1, <1>2, NetPasses
<1>4. n = DotNet!Rows(a, 6) /\ DotNet!End = Starts(a)[6 + 2] + 1 /\ DotNet!Table = 6
  BY <1>2, NetRead
<1>5. size = 4 + 2 + 2 + string + DotNet!HeapSize("blob") + DotNet!TableIndexSize(8)
  BY DEF DotNet!RowSize
<1>6. /\ out' = [out EXCEPT !.methods = [r \in 1 .. n |-> read(r)]]
      /\ pos' = pos + n * size /\ stack' = Tail(stack)
  BY <1>5, ZenonT(30) DEF DotNet!ReadMethods
<1>7. pos' = DotNet!End
  BY <1>4, <1>6 DEF DotNet!End
<1>8. \A r \in 1 .. n : read(r) = r
  BY <1>3, <1>4, MethodsAreRead DEF Passed
<1>9. MethodList(a) = [r \in 1 .. n |-> r]
  BY <1>4 DEF MethodList
<1>10. out = [types |-> TypesOf(a), methods |-> <<>>, printed |-> <<>>]
  BY <1>2 DEF AtTable
<1> HIDE DEF read, n
<1>11. [r \in 1 .. n |-> read(r)] = MethodList(a)
  BY <1>8, <1>9
<1>12. out' = [types   |-> IF 6 + 1 > 2 THEN TypesOf(a) ELSE <<>>,
               methods |-> IF 6 + 1 > 6 THEN MethodList(a) ELSE <<>>,
               printed |-> <<>>]
  <2>1. out' = [out EXCEPT !.methods = MethodList(a)]
    BY <1>6, <1>11
  <2>2. out' = [types |-> TypesOf(a), methods |-> MethodList(a), printed |-> <<>>]
    BY <1>10, <2>1
  <2>3. 6 + 1 > 2 /\ 6 + 1 > 6
    OBVIOUS
  <2> QED
    BY <2>2, <2>3
<1>13. pos' = Starts(a)[6 + 2] + 1 /\ stack' = Tail(stack)
  BY <1>4, <1>6, <1>7
<1>14. AtTable(a, 6 + 1)'
  BY <1>2, <1>3, <1>12, <1>13, NetMoves
<1> QED
  BY <1>2, <1>14

\* A table that is not whole is one of a file that was cut.
LEMMA NetTruncated ==
  ASSUME Wide \in Nat, NEW a \in Assembled, NEW t \in 0 .. 6, Assembly(a), AtTable(a, t), DotNet!Truncated
  PROVE  a.cut > 0
<1> DEFINE e == Starts(a)[t + 2]
           l == Stored(a)
           whole == Len(DotNet!Tables(a))
<1>1. DotNet!End = e + 1 /\ Len(input.bytes) = l /\ l \in Nat /\ e \in Nat
  BY NetRead
<1>2. DotNet!End > Len(input.bytes) + 1
  BY DEF DotNet!Truncated
<1>3. e <= whole /\ whole \in Nat
  BY StartsAre DEF Assembly
<1>4. l = whole - a.cut /\ a.cut \in 0 .. whole
  BY DEF Stored, Assembled
<1> HIDE DEF e, l, whole
<1> QED
  BY <1>1, <1>2, <1>3, <1>4

LEMMA NetEnds ==
  ASSUME Wide \in Nat, NEW a \in Assembled, Assembly(a), AtTable(a, 7), DotNet!EndOfTables
  PROVE  AtType(a)'
<1> DEFINE l == Stored(a)
           whole == Len(DotNet!Tables(a))
<1>1. Starts(a)[8] = whole /\ whole \in Nat
  BY StartsAre DEF Assembly
<1>2. whole <= l
  BY <1>1 DEF AtTable
<1>3. l = whole - a.cut /\ a.cut \in 0 .. whole
  BY DEF Stored, Assembled
<1> HIDE DEF l, whole
<1>4. a.cut = 0
  BY <1>1, <1>2, <1>3
<1>5. pos' = 1 /\ out' = out
  BY DEF DotNet!EndOfTables
<1>6. out = [types |-> TypesOf(a), methods |-> MethodList(a), printed |-> <<>>]
  BY DEF AtTable
<1>7. PrintedTo(a, 1) = <<>>
  BY DEF PrintedTo
<1>8. 1 \in 1 .. Len(a.types) + 1
  BY MethodsAdd
<1>9. TypesOf(a)' = TypesOf(a) /\ MethodList(a)' = MethodList(a) /\ PrintedTo(a, pos)' = PrintedTo(a, 1)
  BY <1>5 DEF TypesOf, MethodList, PrintedTo
<1> QED
  BY <1>4, <1>5, <1>6, <1>7, <1>8, <1>9 DEF AtType

\* Where the methods of type i end, and which they are.
LEMMA NetPrinted ==
  ASSUME NEW a \in Assembled, AtType(a), NEW p \in 1 .. Len(a.types), pos = p
  PROVE  /\ Len(out.types) = Len(a.types) /\ out.types[p].name = p
         /\ DotNet!MethodsFrom(DotNet!Less1(out.types[p].first), DotNet!EndOfMethods(p))
              = [k \in 1 .. a.types[p].methods |-> DotNet!FirstMethod(a, p) + k - 1]
<1> DEFINE n == Len(a.types)
           sum == DotNet!MethodsOf(a)
           First(i) == DotNet!FirstMethod(a, i)
           types == out.types
           methods == out.methods
           m == sum[n]
           from == sum[p - 1]
           to == sum[p]
           own == a.types[p].methods
<1>1. /\ n \in Nat /\ sum \in [0 .. n -> Nat]
      /\ \A i \in 1 .. n : a.types[i].methods \in Nat /\ sum[i] = sum[i - 1] + a.types[i].methods
  BY MethodsAdd
<1>2. types = [r \in 1 .. n |-> [name |-> r, first |-> First(r)]] /\ methods = [r \in 1 .. m |-> r]
  BY DEF AtType, TypesOf, MethodList, DotNet!Rows
<1>3. \A i \in 1 .. n : First(i) = 1 + sum[i - 1]
  BY DEF DotNet!FirstMethod
<1>4. p \in 1 .. n
  OBVIOUS
<1>5. to <= m
  <2>1. p \in 0 .. n
    BY <1>1, <1>4
  <2> QED
    BY <2>1, MethodsWithin
<1> HIDE DEF types, methods
<1>6. /\ DotNet!EndOfMethods(p) =
           LET next == IF p < Len(types) THEN DotNet!Less1(types[p + 1].first) ELSE Len(methods)
           IN  IF next < Len(methods) THEN next ELSE Len(methods)
      /\ \A i, j : DotNet!MethodsFrom(i, j) = [k \in 1 .. j - i |-> methods[i + k]]
  BY DEF DotNet!EndOfMethods, DotNet!MethodsFrom, types, methods
<1> HIDE DEF n, sum, First
<1>7. from \in Nat /\ to \in Nat /\ m \in Nat /\ own \in Nat /\ to = from + own
  BY <1>1, <1>4
<1>8. Len(types) = n /\ Len(methods) = m /\ types[p].name = p /\ types[p].first = 1 + from
  <2> HIDE DEF m
  <2> QED
    BY <1>1, <1>2, <1>3, <1>4, <1>7
<1>9. p < n => types[p + 1].first = 1 + to
  <2> SUFFICES ASSUME p < n PROVE types[p + 1].first = 1 + to
    OBVIOUS
  <2>1. p + 1 \in 1 .. n /\ (p + 1) - 1 = p
    BY <1>1, <1>4
  <2> QED
    BY <1>2, <1>3, <2>1
<1>10. ~(p < n) => to = m
  <2>1. ~(p < n) => p = n
    BY <1>1, <1>4
  <2> QED
    BY <2>1
<1>11. \A k \in Nat : DotNet!Less1(1 + k) = k
  BY DEF DotNet!Less1
<1> HIDE DEF from, to, m, own
<1>12. DotNet!EndOfMethods(p) = to
  <2>1. CASE p < n
    <3>1. DotNet!Less1(types[p + 1].first) = to
      BY <1>7, <1>9, <1>11, <2>1
    <3>2. DotNet!EndOfMethods(p) = IF to < m THEN to ELSE m
      BY <1>6, <1>8, <2>1, <3>1
    <3> QED
      BY <1>5, <1>7, <3>2
  <2>2. CASE ~(p < n)
    <3>1. DotNet!EndOfMethods(p) = m
      BY <1>6, <1>8, <2>2
    <3> QED
      BY <1>10, <2>2, <3>1
  <2> QED
    BY <2>1, <2>2
<1>13. DotNet!Less1(types[p].first) = from
  BY <1>7, <1>8, <1>11
<1>14. DotNet!MethodsFrom(from, to) = [k \in 1 .. own |-> First(p) + k - 1]
  <2>1. to - from = own
    BY <1>7
  <2>2. \A k \in 1 .. own : methods[from + k] = First(p) + k - 1
    <3>1. First(p) = 1 + from
      BY <1>3, <1>4 DEF from
    <3>2. \A k \in 1 .. own : from + k \in 1 .. m
      BY <1>5, <1>7
    <3>3. \A k \in 1 .. own : from + k = (1 + from) + k - 1
      BY <1>7
    <3> QED
      BY <1>2, <3>1, <3>2, <3>3
  <2>3. DotNet!MethodsFrom(from, to) = [k \in 1 .. own |-> methods[from + k]]
    BY <1>6, <2>1
  <2> QED
    BY <2>2, <2>3
<1> QED
  BY <1>8, <1>12, <1>13, <1>14 DEF n, own, First, types

LEMMA NetPrints ==
  ASSUME NEW a \in Assembled, AtType(a), DotNet!PrintType
  PROVE  AtType(a)'
<1> DEFINE n == Len(a.types)
           p == pos
           methods == [k \in 1 .. a.types[p].methods |-> DotNet!FirstMethod(a, p) + k - 1]
           entry == [type |-> p, methods |-> methods]
           E(i) == [type |-> i, methods |-> [k \in 1 .. a.types[i].methods |-> DotNet!FirstMethod(a, i) + k - 1]]
<1>1. n \in Nat /\ p \in 1 .. n + 1
  BY MethodsAdd DEF AtType
<1>2. out = [types |-> TypesOf(a), methods |-> MethodList(a), printed |-> PrintedTo(a, p)] /\ a.cut = 0
  BY DEF AtType
<1>3. p <= n
  BY <1>2 DEF DotNet!PrintType, TypesOf
<1>4. p \in 1 .. n
  BY <1>1, <1>3
<1>5. /\ out.types[p].name = p
      /\ DotNet!MethodsFrom(DotNet!Less1(out.types[p].first), DotNet!EndOfMethods(p)) = methods
  BY <1>4, NetPrinted
<1>6. pos' = p + 1 /\ pos' \in 1 .. n + 1
  BY <1>1, <1>4 DEF DotNet!PrintType
<1>7. out' = IF p = 1 THEN out ELSE [out EXCEPT !.printed = Append(@, entry)]
  BY <1>5 DEF DotNet!PrintType
<1>8. \A q : PrintedTo(a, q) = [i \in 1 .. q - 2 |-> E(i + 1)]
  BY DEF PrintedTo
<1>9. entry = E(p)
  OBVIOUS
<1> HIDE DEF entry, E, methods, n
<1>10. out' = [types |-> TypesOf(a), methods |-> MethodList(a), printed |-> PrintedTo(a, p + 1)]
  <2>1. CASE p = 1
    <3>1. 1 .. p - 2 = {} /\ 1 .. (p + 1) - 2 = {}
      BY <2>1
    <3>2. PrintedTo(a, p + 1) = PrintedTo(a, p)
      BY <1>8, <3>1
    <3> QED
      BY <1>2, <1>7, <2>1, <3>2
  <2>2. CASE p # 1
    <3> DEFINE d == p - 2
               old == PrintedTo(a, p)
    <3>1. d \in Nat /\ p = d + 2 /\ (p + 1) - 2 = d + 1
      BY <1>1, <1>4, <2>2
    <3>2. old = [i \in 1 .. d |-> E(i + 1)] /\ PrintedTo(a, p + 1) = [i \in 1 .. d + 1 |-> E(i + 1)]
      BY <1>8, <3>1
    <3>3. E((d + 1) + 1) = entry
      <4>1. (d + 1) + 1 = p
        BY <3>1
      <4> QED
        BY <1>9, <4>1
    <3> HIDE DEF d, old
    <3>4. Append(old, entry) = PrintedTo(a, p + 1)
      <4>1. Append(old, entry) = [i \in 1 .. d + 1 |-> IF i = d + 1 THEN entry ELSE E(i + 1)]
        BY <3>1, <3>2
      <4>2. \A i \in 1 .. d + 1 : (IF i = d + 1 THEN entry ELSE E(i + 1)) = E(i + 1)
        BY <3>3
      <4> QED
        BY <3>2, <4>1, <4>2
    <3>5. out' = [out EXCEPT !.printed = Append(@, entry)]
      BY <1>7, <2>2
    <3>6. out = [types |-> TypesOf(a), methods |-> MethodList(a), printed |-> old]
      BY <1>2 DEF old
    <3> QED
      BY <3>4, <3>5, <3>6
  <2> QED
    BY <2>1, <2>2
<1>11. TypesOf(a)' = TypesOf(a) /\ MethodList(a)' = MethodList(a) /\ PrintedTo(a, pos)' = PrintedTo(a, pos')
  BY DEF TypesOf, MethodList, PrintedTo
<1> QED
  BY <1>2, <1>6, <1>10, <1>11 DEF AtType, n

LEMMA NetSteps ==
  ASSUME Wide \in Nat, NetInv, [DotNet!Next]_(DotNet!vars)
  PROVE  NetInv'
<1>1. PICK a \in Assembled :
        /\ Assembly(a)
        /\ \/ status = "tables" /\ \E t \in 0 .. 7 : AtTable(a, t)
           \/ status = "types" /\ AtType(a)
           \/ status = "done" /\ AtType(a) /\ pos > Len(a.types)
           \/ status = "end" /\ a.cut > 0
  BY DEF NetInv
<1>2. Assembly(a)' /\ (Assembled)' = Assembled
  <2>1. input' = input
    BY DEF DotNet!Next, DotNet!vars, DotNet!SkipTable, DotNet!ReadTypes, DotNet!ReadMethods, DotNet!Truncated,
           DotNet!EndOfTables, DotNet!PrintType, DotNet!EndOfTypes
  <2> QED
    BY <1>1, <2>1 DEF Assembly, Stored, Assembled
<1>3. ASSUME \/ status' = "tables" /\ \E t \in 0 .. 7 : AtTable(a, t)'
             \/ status' = "types" /\ AtType(a)'
             \/ status' = "done" /\ AtType(a)' /\ pos' > Len(a.types)
             \/ status' = "end" /\ a.cut > 0
      PROVE  NetInv'
  BY <1>2, <1>3 DEF NetInv
<1>4. ASSUME status = "tables", stack # <<>>
      PROVE  \E t \in 0 .. 6 : AtTable(a, t)
  <2>1. PICK t \in 0 .. 7 : AtTable(a, t)
    BY <1>1, <1>4
  <2>2. Len(stack) = 7 - t /\ stack \in Seq(0 .. 6)
    BY <2>1 DEF AtTable
  <2>3. t # 7
    BY <1>4, <2>2
  <2> QED
    BY <2>1, <2>3
<1>5. ASSUME DotNet!SkipTable \/ DotNet!ReadTypes \/ DotNet!ReadMethods
      PROVE  NetInv'
  <2>1. status = "tables" /\ stack # <<>> /\ status' = status
    BY <1>5 DEF DotNet!SkipTable, DotNet!ReadTypes, DotNet!ReadMethods, DotNet!Fits
  <2>2. PICK t \in 0 .. 6 : AtTable(a, t)
    BY <1>4, <2>1
  <2>3. AtTable(a, t + 1)'
    BY <1>1, <1>5, <2>2, NetSkips, NetTypes, NetMethods
  <2>4. t + 1 \in 0 .. 7
    OBVIOUS
  <2> QED
    BY <1>3, <2>1, <2>3, <2>4
<1>6. ASSUME DotNet!Truncated
      PROVE  NetInv'
  <2>1. status = "tables" /\ stack # <<>> /\ status' = "end"
    BY <1>6 DEF DotNet!Truncated
  <2>2. PICK t \in 0 .. 6 : AtTable(a, t)
    BY <1>4, <2>1
  <2> QED
    BY <1>1, <1>3, <1>6, <2>1, <2>2, NetTruncated
<1>7. ASSUME DotNet!EndOfTables
      PROVE  NetInv'
  <2>1. status = "tables" /\ stack = <<>> /\ status' = "types"
    BY <1>7 DEF DotNet!EndOfTables
  <2>2. PICK t \in 0 .. 7 : AtTable(a, t)
    BY <1>1, <2>1
  <2>3. t = 7
    BY <2>1, <2>2 DEF AtTable
  <2> QED
    BY <1>1, <1>3, <1>7, <2>1, <2>2, <2>3, NetEnds
<1>8. ASSUME DotNet!PrintType
      PROVE  NetInv'
  <2>1. status = "types" /\ status' = "types"
    BY <1>8 DEF DotNet!PrintType
  <2> QED
    BY <1>1, <1>3, <1>8, <2>1, NetPrints
<1>9. ASSUME DotNet!EndOfTypes
      PROVE  NetInv'
  <2>1. status = "types" /\ status' = "done" /\ UNCHANGED <<pos, out>> /\ pos > Len(out.types)
    BY <1>9 DEF DotNet!EndOfTypes
  <2>2. AtType(a)
    BY <1>1, <2>1
  <2>3. AtType(a)'
    BY <2>1, <2>2 DEF AtType, TypesOf, MethodList, PrintedTo
  <2>4. Len(out.types) = Len(a.types)
    BY <2>2, MethodsAdd DEF AtType, TypesOf
  <2> QED
    BY <1>3, <2>1, <2>3, <2>4
<1>10. ASSUME UNCHANGED DotNet!vars
       PROVE  NetInv'
  <2>1. UNCHANGED <<pos, stack, out, status>>
    BY <1>10 DEF DotNet!vars
  <2>2. \A t : AtTable(a, t) => AtTable(a, t)'
    BY <2>1 DEF AtTable, Starts, Stored, TypesOf, MethodList, Parts, TableOf, RowsOf
  <2>3. AtType(a) => AtType(a)'
    BY <2>1 DEF AtType, TypesOf, MethodList, PrintedTo
  <2> QED
    BY <1>1, <1>3, <2>1, <2>2, <2>3
<1> QED
  BY <1>5, <1>6, <1>7, <1>8, <1>9, <1>10 DEF DotNet!Next

LEMMA NetShows ==
  ASSUME Wide \in Nat, NetInv
  PROVE  DotNet!TypesReadBack
<1>1. PICK a \in Assembled :
        /\ Assembly(a)
        /\ \/ status = "tables" /\ \E t \in 0 .. 7 : AtTable(a, t)
           \/ status = "types" /\ AtType(a)
           \/ status = "done" /\ AtType(a) /\ pos > Len(a.types)
           \/ status = "end" /\ a.cut > 0
  BY DEF NetInv
<1>2. input.assembly = a
  BY <1>1 DEF Assembly
<1>3. ASSUME status = "done"
      PROVE  /\ ~(a.cut > 0)
             /\ out.printed = [i \in 1 .. Len(a.types) - 1 |->
                  [type |-> i + 1,
                   methods |-> [k \in 1 .. a.types[i + 1].methods |-> DotNet!FirstMethod(a, i + 1) + k - 1]]]
  <2>1. AtType(a) /\ pos > Len(a.types)
    BY <1>1, <1>3
  <2>2. a.cut = 0 /\ out.printed = PrintedTo(a, pos) /\ pos \in 1 .. Len(a.types) + 1
    BY <2>1 DEF AtType
  <2>3. pos = Len(a.types) + 1 /\ pos - 2 = Len(a.types) - 1
    BY <2>1, <2>2, MethodsAdd
  <2>4. ~(a.cut > 0)
    BY <2>2
  <2> QED
    BY <2>2, <2>3, <2>4 DEF PrintedTo
<1>4. status = "end" => a.cut > 0
  BY <1>1
<1> QED
  BY <1>2, <1>3, <1>4 DEF DotNet!TypesReadBack

-----------------------------------------------------------------------------
(***************************************************************************)
(* ClassFile.  `off' is how much of a text lies before what is looked at.  *)
(***************************************************************************)
Lies(text, off, s) == off + Len(s) <= Len(text) /\ \A k \in 1 .. Len(s) : text[off + k] = s[k]

LEMMA ClassFlattened ==
  ASSUME NEW X, NEW seqs \in Seq(Seq(X))
  PROVE  \E start : Flat(X, Class!FlattenSeq(seqs), seqs, start)
<1>1. Class!FlattenSeq(seqs) = DotNet!FlattenSeq(seqs)
  BY DEF Class!FlattenSeq, DotNet!FlattenSeq
<1> QED
  BY <1>1, Flattened

LEMMA LiesWithin ==
  ASSUME NEW w \in Seq(Nat), NEW s \in Seq(Nat), NEW r \in Seq(Nat), NEW o \in Nat, NEW p \in Nat,
         Lies(w, o, s), Lies(s, p, r)
  PROVE  Lies(w, o + p, r)
<1>1. /\ Len(w) \in Nat /\ Len(s) \in Nat /\ Len(r) \in Nat
      /\ o + Len(s) <= Len(w) /\ p + Len(r) <= Len(s)
      /\ \A k \in 1 .. Len(s) : w[o + k] = s[k]
      /\ \A k \in 1 .. Len(r) : s[p + k] = r[k]
  BY DEF Lies
<1> DEFINE m == Len(s)
           n == Len(r)
<1>2. ASSUME NEW k \in 1 .. n PROVE w[(o + p) + k] = r[k]
  <2>1. p + k \in 1 .. m /\ o + (p + k) = (o + p) + k
    BY <1>1
  <2>2. w[o + (p + k)] = s[p + k] /\ s[p + k] = r[k]
    BY <1>1, <2>1
  <2> QED
    BY <2>1, <2>2
<1>3. (o + p) + n <= Len(w)
  BY <1>1
<1> QED
  BY <1>2, <1>3 DEF Lies

LEMMA JoinLies ==
  ASSUME NEW s \in Seq(Nat), NEW t \in Seq(Nat)
  PROVE  /\ s \o t \in Seq(Nat) /\ Len(s \o t) = Len(s) + Len(t)
         /\ Lies(s \o t, 0, s) /\ Lies(s \o t, Len(s), t)
<1> DEFINE c == s \o t
<1>1. Join(Nat, c, s, t)
  BY Concatenated
<1>2. Len(s) \in Nat /\ Len(t) \in Nat
  OBVIOUS
<1> HIDE DEF c
<1>3. /\ c \in Seq(Nat) /\ Len(c) = Len(s) + Len(t)
      /\ \A i \in 1 .. Len(s) : c[i] = s[i]
      /\ \A i \in 1 .. Len(t) : c[Len(s) + i] = t[i]
  BY <1>1 DEF Join
<1>4. Lies(c, 0, s)
  BY <1>2, <1>3 DEF Lies
<1>5. Lies(c, Len(s), t)
  BY <1>2, <1>3 DEF Lies
<1> QED
  BY <1>3, <1>4, <1>5 DEF c

LEMMA FlatLies ==
  ASSUME NEW seqs \in Seq(Seq(Nat)), NEW f, NEW start, Flat(Nat, f, seqs, start)
  PROVE  /\ f \in Seq(Nat) /\ start \in [1 .. Len(seqs) + 1 -> Nat] /\ start[1] = 0
         /\ Len(f) = start[Len(seqs) + 1]
         /\ \A i \in 1 .. Len(seqs) : /\ start[i + 1] = start[i] + Len(seqs[i]) 
                                      /\ Lies(f, start[i], seqs[i])
<1> DEFINE N == Len(seqs)
           Ascends(d) == \A i \in 1 .. N + 1 : i + d \in 1 .. N + 1 => start[i] <= start[i + d]
           S == {d \in Nat : Ascends(d)}
<1>1. /\ N \in Nat /\ f \in Seq(Nat) /\ start \in [1 .. N + 1 -> Nat] /\ start[1] = 0 /\ Len(f) = start[N + 1]
      /\ \A i \in 1 .. N : /\ start[i + 1] = start[i] + Len(seqs[i])
                           /\ \A k \in 1 .. Len(seqs[i]) : f[start[i] + k] = seqs[i][k]
  BY DEF Flat
<1>2. \A i \in 1 .. N : Len(seqs[i]) \in Nat
  OBVIOUS
<1> HIDE DEF N
<1>3. ASSUME NEW d \in Nat, Ascends(d) PROVE Ascends(d + 1)
  <2> SUFFICES ASSUME NEW i \in 1 .. N + 1, i + (d + 1) \in 1 .. N + 1
               PROVE  start[i] <= start[i + (d + 1)]
    OBVIOUS
  <2> DEFINE j == i + d
  <2>1. j \in 1 .. N + 1 /\ j \in 1 .. N /\ j + 1 = i + (d + 1) /\ j + 1 \in 1 .. N + 1
    BY <1>1
  <2>2. start[i] <= start[j]
    BY <1>3, <2>1
  <2> HIDE DEF j, Ascends
  <2>3. start[j + 1] = start[j] + Len(seqs[j]) /\ Len(seqs[j]) \in Nat /\ start[i] \in Nat /\ start[j] \in Nat
    BY <1>1, <1>2, <2>1
  <2>4. start[i] <= start[j + 1]
    BY <2>2, <2>3
  <2> QED
    BY <2>1, <2>4
<1>4. \A d \in Nat : Ascends(d)
  <2>1. \A i \in 1 .. N + 1 : i + 0 = i /\ start[i] <= start[i]
    BY <1>1
  <2>2. Ascends(0)
    BY <2>1
  <2> HIDE DEF Ascends
  <2>3. S \in SUBSET Nat /\ 0 \in S /\ \A d \in S : d + 1 \in S
    BY <1>3, <2>2
  <2> HIDE DEF S
  <2>4. \A d \in Nat : d \in S
    BY <2>3, Induction
  <2> QED
    BY <2>4 DEF S
<1>5. ASSUME NEW i \in 1 .. N PROVE start[i + 1] <= Len(f)
  <2> DEFINE d == N - i
  <2>1. d \in Nat /\ i + 1 \in 1 .. N + 1 /\ (i + 1) + d = N + 1 /\ N + 1 \in 1 .. N + 1
    BY <1>1
  <2> HIDE DEF d
  <2>2. start[i + 1] <= start[(i + 1) + d]
    BY <1>4, <2>1
  <2> QED
    BY <1>1, <2>1, <2>2
<1>6. ASSUME NEW i \in 1 .. N PROVE Lies(f, start[i], seqs[i])
  <2>1. start[i] + Len(seqs[i]) <= Len(f)
    BY <1>1, <1>5
  <2> QED
    BY <1>1, <2>1 DEF Lies
<1> QED
  BY <1>1, <1>6 DEF N

\* The numbers of the entries of a pool.
PoolTypes == [kind : STRING, text : STRING]

LEMMA NumbersAscend ==
  ASSUME NEW pool \in Seq(PoolTypes)
  PROVE  LET n == Len(pool)
             slot == Class!NumbersOf(pool)
         IN  /\ n \in Nat /\ slot \in [1 .. n + 1 -> Nat] /\ slot[1] = 1
             /\ \A k \in 1 .. n : slot[k + 1] = slot[k] + Class!SlotsOf(pool[k])
             /\ \A j, k \in 1 .. n + 1 : j < k => slot[j] < slot[k]
<1> DEFINE n == Len(pool)
           size(k) == Class!SlotsOf(pool[k])
           F(slot) == [k \in 1 .. n + 1 |-> IF k = 1 THEN 1 ELSE slot[k - 1] + Class!SlotsOf(pool[k - 1])]
           slot == CHOOSE s : s = F(s)
           step == [x \in Nat \X Nat |-> IF x[1] \in 1 .. n THEN x[2] + size(x[1]) ELSE x[2]]
<1>1. n \in Nat /\ \A k \in 1 .. n : size(k) \in {1, 2}
  BY DEF Class!SlotsOf
<1>2. Class!NumbersOf(pool) = slot
  BY DEF Class!NumbersOf
<1> HIDE DEF n
<1>3. step \in [Nat \X Nat -> Nat]
  <2> HIDE DEF size
  <2>1. \A k \in 1 .. n : size(k) \in Nat
    BY <1>1
  <2> QED
    BY <2>1
<1>4. PICK f : IsRun(f, Nat, 1, step, n)
  BY <1>1, <1>3, Iterated
<1>5. f \in [0 .. n -> Nat] /\ f[0] = 1 /\ \A i \in 1 .. n : f[i] = step[<<i, f[i - 1]>>]
  BY <1>4 DEF IsRun
<1>6. ASSUME NEW i \in 1 .. n PROVE f[i] = f[i - 1] + size(i)
  <2>1. i \in Nat /\ i - 1 \in 0 .. n
    BY <1>1
  <2>2. f[i - 1] \in Nat
    BY <1>5, <2>1
  <2> HIDE DEF size
  <2>3. step[<<i, f[i - 1]>>] = f[i - 1] + size(i)
    BY <2>1, <2>2
  <2> QED
    BY <1>5, <2>3
<1> HIDE DEF step
<1> DEFINE g == [k \in 1 .. n + 1 |-> f[k - 1]]
<1>7. g = F(g)
  <2>1. ASSUME NEW k \in 1 .. n + 1, k # 1 PROVE f[k - 1] = g[k - 1] + size(k - 1)
    <3> DEFINE i == k - 1
    <3>1. i \in 1 .. n /\ i \in 1 .. n + 1
      BY <1>1, <2>1
    <3> HIDE DEF i, size
    <3>2. f[i] = f[i - 1] + size(i) /\ g[i] = f[i - 1]
      BY <1>6, <3>1
    <3> QED
      BY <3>2 DEF i
  <2>2. f[1 - 1] = 1
    BY <1>5
  <2> QED
    BY <2>1, <2>2
<1>8. slot = F(slot)
  BY <1>7
<1> HIDE DEF slot, g
<1>9. /\ slot = [k \in 1 .. n + 1 |-> slot[k]] /\ slot[1] = 1
      /\ \A k \in 1 .. n : slot[k + 1] = slot[k] + size(k)
  <2>1. slot = [k \in 1 .. n + 1 |-> slot[k]]
    BY <1>8
  <2>2. \A k \in 1 .. n + 1 : slot[k] = IF k = 1 THEN 1 ELSE slot[k - 1] + size(k - 1)
    BY <1>8
  <2>3. 1 \in 1 .. n + 1 /\ \A k \in 1 .. n : k + 1 \in 1 .. n + 1 /\ k + 1 # 1 /\ (k + 1) - 1 = k
    BY <1>1
  <2> HIDE DEF size
  <2>4. slot[1] = 1
    BY <2>2, <2>3
  <2>5. ASSUME NEW k \in 1 .. n PROVE slot[k + 1] = slot[k] + size(k)
    <3>1. slot[k + 1] = slot[(k + 1) - 1] + size((k + 1) - 1)
      BY <2>2, <2>3
    <3> QED
      BY <2>3, <3>1
  <2> QED
    BY <2>1, <2>4, <2>5
<1> HIDE DEF F, size
<1> DEFINE Good(k) == k \in 1 .. n + 1 => slot[k] \in Nat
           S == {k \in Nat : Good(k)}
<1>10. ASSUME NEW k \in Nat, Good(k) PROVE Good(k + 1)
  <2>1. CASE k \in 1 .. n
    <3>1. k \in 1 .. n + 1
      BY <1>1, <2>1
    <3>2. slot[k] \in Nat /\ size(k) \in {1, 2} /\ slot[k + 1] = slot[k] + size(k)
      BY <1>1, <1>9, <1>10, <2>1, <3>1
    <3>3. slot[k + 1] \in Nat
      BY <3>2
    <3> QED
      BY <3>3
  <2>2. CASE k \notin 1 .. n /\ k + 1 \in 1 .. n + 1
    <3>1. k + 1 = 1
      BY <1>1, <2>2
    <3> QED
      BY <1>9, <3>1
  <2> QED
    BY <2>1, <2>2
<1>11. \A k \in 1 .. n + 1 : slot[k] \in Nat
  <2>1. Good(0)
    OBVIOUS
  <2> HIDE DEF Good
  <2>2. S \in SUBSET Nat /\ 0 \in S /\ \A k \in S : k + 1 \in S
    BY <1>10, <2>1
  <2> HIDE DEF S
  <2>3. \A k \in Nat : k \in S
    BY <2>2, Induction
  <2>4. \A k \in Nat : Good(k)
    BY <2>3 DEF S
  <2> QED
    BY <1>1, <2>4 DEF Good
<1> HIDE DEF Good, S
<1> DEFINE Above(d) == \A k \in 1 .. n : k + (d + 1) \in 1 .. n + 1 => slot[k] < slot[k + (d + 1)]
           T == {d \in Nat : Above(d)}
<1>12. ASSUME NEW d \in Nat, Above(d) PROVE Above(d + 1)
  <2> SUFFICES ASSUME NEW k \in 1 .. n, k + ((d + 1) + 1) \in 1 .. n + 1
               PROVE  slot[k] < slot[k + ((d + 1) + 1)]
    OBVIOUS
  <2> DEFINE j == k + (d + 1)
  <2>1. j \in 1 .. n /\ j \in 1 .. n + 1 /\ j + 1 = k + ((d + 1) + 1) /\ k \in 1 .. n + 1 /\ j + 1 \in 1 .. n + 1
    BY <1>1
  <2>2. slot[k] < slot[j]
    BY <1>12, <2>1
  <2> HIDE DEF j, Above
  <2>3. slot[j + 1] = slot[j] + size(j) /\ size(j) \in {1, 2} /\ slot[k] \in Nat /\ slot[j] \in Nat
    BY <1>1, <1>9, <1>11, <2>1
  <2>4. slot[k] < slot[j + 1]
    BY <2>2, <2>3
  <2> QED
    BY <2>1, <2>4
<1>13. \A d \in Nat : Above(d)
  <2>1. ASSUME NEW k \in 1 .. n PROVE slot[k] < slot[k + (0 + 1)]
    <3>1. k \in 1 .. n + 1 /\ k + (0 + 1) = k + 1
      BY <1>1
    <3>2. slot[k + 1] = slot[k] + size(k) /\ size(k) \in {1, 2} /\ slot[k] \in Nat
      BY <1>1, <1>9, <1>11, <3>1
    <3>3. slot[k] < slot[k + 1]
      BY <3>2
    <3> QED
      BY <3>1, <3>3
  <2>2. Above(0)
    BY <2>1
  <2> HIDE DEF Above
  <2>3. T \in SUBSET Nat /\ 0 \in T /\ \A d \in T : d + 1 \in T
    BY <1>12, <2>2
  <2> HIDE DEF T
  <2>4. \A d \in Nat : d \in T
    BY <2>3, Induction
  <2> QED
    BY <2>4 DEF T
<1>14. ASSUME NEW j \in 1 .. n + 1, NEW k \in 1 .. n + 1, j < k PROVE slot[j] < slot[k]
  <2> DEFINE d == k - j - 1
  <2>1. d \in Nat /\ j + (d + 1) = k /\ j \in 1 .. n
    BY <1>1, <1>14
  <2> HIDE DEF d
  <2>2. slot[j] < slot[j + (d + 1)]
    BY <1>13, <2>1
  <2> QED
    BY <2>1, <2>2
<1>15. slot \in [1 .. n + 1 -> Nat]
  BY <1>9, <1>11
<1> QED
  BY <1>1, <1>2, <1>9, <1>14, <1>15 DEF n, size

\* A number that is written is the number of what is named.
LEMMA NumberNamed ==
  ASSUME NEW pool \in Seq(PoolTypes), NEW kind, NEW text, Class!Named(kind, text, pool)
  PROVE  \E k \in 1 .. Len(pool) : /\ pool[k].kind = kind /\ pool[k].text = text
                                   /\ Class!NumberOf(kind, text, pool) = Class!NumbersOf(pool)[k]
                                   /\ Class!NumberOf(kind, text, pool) \in Nat
<1> DEFINE P(k) == pool[k].kind = kind /\ pool[k].text = text
           k == CHOOSE i \in DOMAIN pool : P(i)
<1>1. \E i \in DOMAIN pool : P(i)
  BY DEF Class!Named
<1>2. k \in DOMAIN pool /\ P(k)
  BY <1>1
<1>3. Class!NumberOf(kind, text, pool) = Class!NumbersOf(pool)[k]
  BY DEF Class!NumberOf
<1> HIDE DEF k
<1>4. k \in 1 .. Len(pool) /\ k \in 1 .. Len(pool) + 1
  BY <1>2
<1>5. Class!NumbersOf(pool)[k] \in Nat
  BY <1>4, NumbersAscend
<1> QED
  BY <1>2, <1>3, <1>4, <1>5

\* Six texts one after another.
LEMMA SixParts ==
  ASSUME NEW p1 \in Seq(Nat), NEW p2 \in Seq(Nat), NEW p3 \in Seq(Nat), NEW p4 \in Seq(Nat),
         NEW p5 \in Seq(Nat), NEW p6 \in Seq(Nat)
  PROVE  LET t == p1 \o p2 \o p3 \o p4 \o p5 \o p6
         IN  /\ t \in Seq(Nat)
             /\ Len(t) = Len(p1) + Len(p2) + Len(p3) + Len(p4) + Len(p5) + Len(p6)
             /\ Lies(t, 0, p1) /\ Lies(t, Len(p1), p2) /\ Lies(t, Len(p1) + Len(p2), p3)
             /\ Lies(t, Len(p1) + Len(p2) + Len(p3), p4)
             /\ Lies(t, Len(p1) + Len(p2) + Len(p3) + Len(p4), p5)
             /\ Lies(t, Len(p1) + Len(p2) + Len(p3) + Len(p4) + Len(p5), p6)
<1> DEFINE c2 == p1 \o p2
           c3 == c2 \o p3
           c4 == c3 \o p4
           c5 == c4 \o p5
           t  == c5 \o p6
<1>1. /\ Len(p1) \in Nat /\ Len(p2) \in Nat /\ Len(p3) \in Nat /\ Len(p4) \in Nat
      /\ Len(p5) \in Nat /\ Len(p6) \in Nat
  OBVIOUS
<1>2. c2 \in Seq(Nat) /\ Len(c2) = Len(p1) + Len(p2) /\ Lies(c2, 0, p1) /\ Lies(c2, Len(p1), p2)
  BY JoinLies
<1> HIDE DEF c2
<1>3. c3 \in Seq(Nat) /\ Len(c3) = Len(c2) + Len(p3) /\ Lies(c3, 0, c2) /\ Lies(c3, Len(c2), p3)
  BY <1>2, JoinLies
<1> HIDE DEF c3
<1>4. c4 \in Seq(Nat) /\ Len(c4) = Len(c3) + Len(p4) /\ Lies(c4, 0, c3) /\ Lies(c4, Len(c3), p4)
  BY <1>3, JoinLies
<1> HIDE DEF c4
<1>5. c5 \in Seq(Nat) /\ Len(c5) = Len(c4) + Len(p5) /\ Lies(c5, 0, c4) /\ Lies(c5, Len(c4), p5)
  BY <1>4, JoinLies
<1> HIDE DEF c5
<1>6. t \in Seq(Nat) /\ Len(t) = Len(c5) + Len(p6) /\ Lies(t, 0, c5) /\ Lies(t, Len(c5), p6)
  BY <1>5, JoinLies
<1> HIDE DEF t
<1>7. ASSUME NEW s \in Seq(Nat), NEW r \in Seq(Nat), NEW o \in Nat, Lies(t, 0, s), Lies(s, o, r)
      PROVE  Lies(t, o, r)
  <2>1. Lies(t, 0 + o, r)
    BY <1>6, <1>7, LiesWithin
  <2>2. 0 + o = o
    OBVIOUS
  <2> QED
    BY <2>1, <2>2
<1>8. Lies(t, Len(c4), p5) /\ Lies(t, 0, c4)
  <2>1. Len(c4) \in Nat /\ 0 \in Nat
    BY <1>4
  <2> QED
    BY <1>4, <1>5, <1>6, <1>7, <2>1
<1>9. Lies(t, Len(c3), p4) /\ Lies(t, 0, c3)
  <2>1. Len(c3) \in Nat /\ 0 \in Nat
    BY <1>3
  <2> QED
    BY <1>3, <1>4, <1>7, <1>8, <2>1
<1>10. Lies(t, Len(c2), p3) /\ Lies(t, 0, c2)
  <2>1. Len(c2) \in Nat /\ 0 \in Nat
    BY <1>2
  <2> QED
    BY <1>2, <1>3, <1>7, <1>9, <2>1
<1>11. Lies(t, Len(p1), p2) /\ Lies(t, 0, p1)
  <2>1. Len(p1) \in Nat /\ 0 \in Nat
    BY <1>1
  <2> QED
    BY <1>2, <1>7, <1>10, <2>1
<1>12. /\ Len(c3) = Len(p1) + Len(p2) + Len(p3)
       /\ Len(c4) = Len(p1) + Len(p2) + Len(p3) + Len(p4)
       /\ Len(c5) = Len(p1) + Len(p2) + Len(p3) + Len(p4) + Len(p5)
       /\ Len(t) = Len(p1) + Len(p2) + Len(p3) + Len(p4) + Len(p5) + Len(p6)
  BY <1>1, <1>2, <1>3, <1>4, <1>5, <1>6
<1>13. /\ t \in Seq(Nat)
       /\ Len(t) = Len(p1) + Len(p2) + Len(p3) + Len(p4) + Len(p5) + Len(p6)
       /\ Lies(t, 0, p1) /\ Lies(t, Len(p1), p2) /\ Lies(t, Len(p1) + Len(p2), p3)
       /\ Lies(t, Len(p1) + Len(p2) + Len(p3), p4)
       /\ Lies(t, Len(p1) + Len(p2) + Len(p3) + Len(p4), p5)
       /\ Lies(t, Len(p1) + Len(p2) + Len(p3) + Len(p4) + Len(p5), p6)
  BY <1>2, <1>6, <1>8, <1>9, <1>10, <1>11, <1>12
<1> QED
  BY <1>13 DEF t, c5, c4, c3, c2

LEMMA PlainIs ==
  ASSUME NEW n \in Nat
  PROVE  /\ Class!Zeros(n) \in Seq(Nat) /\ Len(Class!Zeros(n)) = n
         /\ Class!Plain(n) \in Seq(Nat) /\ Len(Class!Plain(n)) = 2 + n
         /\ Class!Plain(n)[1] = 0 /\ Class!Plain(n)[2] = n
<1> DEFINE h == <<0, n>>
           z == Class!Zeros(n)
<1>1. z \in Seq(Nat) /\ Len(z) = n
  BY DEF Class!Zeros
<1>2. h \in Seq(Nat) /\ Len(h) = 2 /\ h[1] = 0 /\ h[2] = n
  OBVIOUS
<1> HIDE DEF h, z
<1>3. h \o z \in Seq(Nat) /\ Len(h \o z) = Len(h) + Len(z) /\ Lies(h \o z, 0, h)
  BY <1>1, <1>2, JoinLies
<1>4. 1 \in 1 .. Len(h) /\ 2 \in 1 .. Len(h) /\ 0 + 1 = 1 /\ 0 + 2 = 2
  BY <1>2
<1>5. (h \o z)[1] = 0 /\ (h \o z)[2] = n
  BY <1>2, <1>3, <1>4 DEF Lies
<1>6. Class!Plain(n) = h \o z
  BY DEF Class!Plain, h, z
<1> QED
  BY <1>1, <1>2, <1>3, <1>5, <1>6 DEF z

\* A count and that many attributes, of which start gives where each begins and ends.
Chain(w, off, n, start) ==
  /\ w[off + 1] = n /\ start \in [0 .. n -> Nat] /\ start[0] = off + 1
  /\ \A i \in 1 .. n : /\ start[i - 1] + 2 <= Len(w)
                       /\ start[i] = start[i - 1] + 2 + w[start[i - 1] + 2]
  /\ start[n] <= Len(w)

\* The attributes within the Code attribute.
Inner(n) == Class!FlattenSeq([i \in 1 .. n |-> Class!Plain(i)])

LEMMA InnerIs ==
  ASSUME NEW n \in Nat
  PROVE  /\ Inner(n) \in Seq(Nat)
         /\ \E start : /\ start \in [0 .. n -> Nat] /\ start[0] = 0 /\ start[n] = Len(Inner(n))
                       /\ \A i \in 1 .. n : /\ start[i] = start[i - 1] + 2 + Inner(n)[start[i - 1] + 2]
                                            /\ start[i - 1] + 2 <= Len(Inner(n))
<1> DEFINE seqs == [i \in 1 .. n |-> Class!Plain(i)]
           f == Inner(n)
<1>1. \A i \in 1 .. n : Class!Plain(i) \in Seq(Nat) /\ Len(Class!Plain(i)) = 2 + i /\ Class!Plain(i)[2] = i
  BY PlainIs
<1>2. seqs \in Seq(Seq(Nat)) /\ Len(seqs) = n /\ \A i \in 1 .. n : seqs[i] = Class!Plain(i)
  BY <1>1
<1>3. f = Class!FlattenSeq(seqs)
  BY DEF Inner
<1> HIDE DEF seqs, f
<1>4. PICK at : Flat(Nat, f, seqs, at)
  BY <1>2, <1>3, ClassFlattened
<1>5. /\ f \in Seq(Nat) /\ at \in [1 .. n + 1 -> Nat] /\ at[1] = 0 /\ Len(f) = at[n + 1]
      /\ \A i \in 1 .. n : at[i + 1] = at[i] + Len(seqs[i]) /\ Lies(f, at[i], seqs[i])
  BY <1>2, <1>4, FlatLies
<1> DEFINE start == [i \in 0 .. n |-> at[i + 1]]
<1>6. start \in [0 .. n -> Nat] /\ start[0] = 0 /\ start[n] = Len(f)
  <2>1. \A i \in 0 .. n : i + 1 \in 1 .. n + 1
    OBVIOUS
  <2> QED
    BY <1>5, <2>1
<1>7. ASSUME NEW i \in 1 .. n
      PROVE  start[i] = start[i - 1] + 2 + f[start[i - 1] + 2] /\ start[i - 1] + 2 <= Len(f)
  <2>1. i \in 0 .. n /\ i - 1 \in 0 .. n /\ (i - 1) + 1 = i /\ i \in 1 .. n + 1
    OBVIOUS
  <2>2. start[i] = at[i + 1] /\ start[i - 1] = at[i] /\ at[i] \in Nat
    <3>1. start[i] = at[i + 1] /\ start[i - 1] = at[(i - 1) + 1]
      BY <2>1
    <3> HIDE DEF start
    <3> QED
      BY <1>5, <2>1, <3>1
  <2>3. at[i + 1] = at[i] + (2 + i) /\ Lies(f, at[i], seqs[i]) /\ Len(seqs[i]) = 2 + i /\ seqs[i][2] = i
    BY <1>1, <1>2, <1>5
  <2>4. 2 \in 1 .. 2 + i
    OBVIOUS
  <2>5. f[at[i] + 2] = i /\ at[i] + (2 + i) <= Len(f)
    BY <2>3, <2>4 DEF Lies
  <2>6. Len(f) \in Nat
    BY <1>5
  <2>7. at[i + 1] = at[i] + (2 + i)
    BY <2>3
  <2> HIDE DEF start
  <2>8. at[i] + 2 <= Len(f) /\ at[i + 1] = at[i] + 2 + i
    <3> DEFINE x == at[i]
    <3>1. x \in Nat /\ Len(f) \in Nat /\ x + (2 + i) <= Len(f)
      BY <2>2, <2>5, <2>6
    <3> HIDE DEF x
    <3>2. x + 2 <= Len(f) /\ x + (2 + i) = x + 2 + i
      BY <3>1
    <3> QED
      BY <2>7, <3>2 DEF x
  <2> QED
    BY <2>2, <2>5, <2>8
<1> HIDE DEF start
<1> QED
  BY <1>5, <1>6, <1>7 DEF f

CodeText(a) ==
  <<1, 2, Len(a.code)>> \o a.code \o <<a.handlers>> \o Class!Zeros(Class!Handler * a.handlers)
    \o <<a.inner>> \o Inner(a.inner)
Inside(a) == (IF a.name = "Code" THEN CodeText(a) ELSE <<>>) \o Class!Zeros(a.slack)

\* A Code attribute is stored behind `off'.
HasCode(w, off, a) ==
  /\ off + Len(CodeText(a)) <= Len(w)
  /\ w[off + 3] = Len(a.code) /\ Lies(w, off + 3, a.code)
  /\ w[off + 4 + Len(a.code)] = a.handlers
  /\ \E start : /\ Chain(w, off + 4 + Len(a.code) + 4 * a.handlers, a.inner, start)
                /\ start[a.inner] = off + Len(CodeText(a))

LEMMA CodeTextIs ==
  ASSUME NEW a \in Class!AttributeTypes
  PROVE  /\ CodeText(a) \in Seq(Nat)
         /\ Len(CodeText(a)) = 5 + Len(a.code) + 4 * a.handlers + Len(Inner(a.inner))
         /\ \A w \in Seq(Nat), off \in Nat : Lies(w, off, CodeText(a)) => HasCode(w, off, a)
<1> DEFINE lc == Len(a.code)
           h == a.handlers
           n == a.inner
           p1 == <<1, 2, lc>>
           p3 == <<h>>
           p4 == Class!Zeros(Class!Handler * h)
           p5 == <<n>>
           p6 == Inner(n)
           t == CodeText(a)
           z == 4 * h
<1>1. a.code \in Seq(Nat) /\ lc \in Nat /\ h \in Nat /\ n \in Nat
  BY DEF Class!AttributeTypes
<1>2. p1 \in Seq(Nat) /\ Len(p1) = 3 /\ p1[3] = lc
  BY <1>1
<1>3. p3 \in Seq(Nat) /\ Len(p3) = 1 /\ p3[1] = h /\ p5 \in Seq(Nat) /\ Len(p5) = 1 /\ p5[1] = n
  BY <1>1
<1>4. z \in Nat /\ p4 \in Seq(Nat) /\ Len(p4) = z
  <2>1. z \in Nat /\ Class!Handler * h = z
    BY <1>1 DEF Class!Handler
  <2> QED
    BY <2>1, PlainIs
<1>5. p6 \in Seq(Nat) /\ Len(p6) \in Nat
  <2>1. p6 \in Seq(Nat)
    BY <1>1, InnerIs
  <2> QED
    BY <2>1
<1>6. t = p1 \o a.code \o p3 \o p4 \o p5 \o p6
  BY DEF CodeText
<1>7. PICK at : /\ at \in [0 .. n -> Nat] /\ at[0] = 0 /\ at[n] = Len(p6)
                /\ \A i \in 1 .. n : /\ at[i] = at[i - 1] + 2 + p6[at[i - 1] + 2]
                                     /\ at[i - 1] + 2 <= Len(p6)
  BY <1>1, InnerIs
<1> HIDE DEF p1, p3, p4, p5, p6, t, lc, h, n, z
<1>8. /\ t \in Seq(Nat) /\ Len(t) = Len(p1) + lc + Len(p3) + Len(p4) + Len(p5) + Len(p6)
      /\ Lies(t, 0, p1) /\ Lies(t, Len(p1), a.code) /\ Lies(t, Len(p1) + lc, p3)
      /\ Lies(t, Len(p1) + lc + Len(p3) + Len(p4), p5)
      /\ Lies(t, Len(p1) + lc + Len(p3) + Len(p4) + Len(p5), p6)
  <2> DEFINE p2 == a.code
             u == p1 \o p2 \o p3 \o p4 \o p5 \o p6
  <2>1. p1 \in Seq(Nat) /\ p2 \in Seq(Nat) /\ p3 \in Seq(Nat) /\ p4 \in Seq(Nat) /\ p5 \in Seq(Nat) /\ p6 \in Seq(Nat)
    BY <1>1, <1>2, <1>3, <1>4, <1>5
  <2>2. t = u /\ lc = Len(p2)
    BY <1>6 DEF lc
  <2> HIDE DEF p2
  <2>3. /\ u \in Seq(Nat) /\ Len(u) = Len(p1) + Len(p2) + Len(p3) + Len(p4) + Len(p5) + Len(p6)
        /\ Lies(u, 0, p1) /\ Lies(u, Len(p1), p2) /\ Lies(u, Len(p1) + Len(p2), p3)
        /\ Lies(u, Len(p1) + Len(p2) + Len(p3) + Len(p4), p5)
        /\ Lies(u, Len(p1) + Len(p2) + Len(p3) + Len(p4) + Len(p5), p6)
    BY <2>1, SixParts
  <2> HIDE DEF u
  <2> QED
    BY <2>2, <2>3 DEF p2
<1>9. /\ Len(p1) + lc = 3 + lc /\ Len(p1) + lc + Len(p3) + Len(p4) = 4 + lc + z
      /\ Len(p1) + lc + Len(p3) + Len(p4) + Len(p5) = 5 + lc + z
      /\ Len(p1) + lc + Len(p3) + Len(p4) + Len(p5) + Len(p6) = 5 + lc + z + Len(p6)
  BY <1>1, <1>2, <1>3, <1>4, <1>5
<1>10. ASSUME NEW w \in Seq(Nat), NEW off \in Nat, Lies(w, off, t)
       PROVE  HasCode(w, off, a)
  <2>1. /\ Lies(w, off + 0, p1) /\ Lies(w, off + 3, a.code) /\ Lies(w, off + (3 + lc), p3)
        /\ Lies(w, off + (4 + lc + z), p5) /\ Lies(w, off + (5 + lc + z), p6)
    <3>1. 0 \in Nat /\ 3 \in Nat /\ 3 + lc \in Nat /\ 4 + lc + z \in Nat /\ 5 + lc + z \in Nat
      BY <1>1, <1>4
    <3>2. /\ Lies(t, 0, p1) /\ Lies(t, 3, a.code) /\ Lies(t, 3 + lc, p3)
          /\ Lies(t, 4 + lc + z, p5) /\ Lies(t, 5 + lc + z, p6)
      BY <1>2, <1>8, <1>9
    <3>3. ASSUME NEW r \in Seq(Nat), NEW o \in Nat, Lies(t, o, r) PROVE Lies(w, off + o, r)
      BY <1>8, <1>10, <3>3, LiesWithin
    <3> QED
      BY <1>1, <1>2, <1>3, <1>5, <3>1, <3>2, <3>3
  <2>2. w[off + 3] = lc
    <3>1. 3 \in 1 .. Len(p1) /\ (off + 0) + 3 = off + 3
      BY <1>2
    <3> QED
      BY <1>2, <2>1, <3>1 DEF Lies
  <2>3. w[off + 4 + lc] = h
    <3>1. 1 \in 1 .. Len(p3) /\ (off + (3 + lc)) + 1 = off + 4 + lc
      BY <1>1, <1>3
    <3> QED
      BY <1>3, <2>1, <3>1 DEF Lies
  <2>4. w[off + 4 + lc + z + 1] = n
    <3>1. 1 \in 1 .. Len(p5) /\ (off + (4 + lc + z)) + 1 = off + 4 + lc + z + 1
      BY <1>1, <1>3, <1>4
    <3> QED
      BY <1>3, <2>1, <3>1 DEF Lies
  <2> DEFINE b == off + 4 + lc + z
             start == [i \in 0 .. n |-> b + 1 + at[i]]
  <2>5. b \in Nat /\ b + 1 = off + (5 + lc + z)
    BY <1>1, <1>4
  <2>6. w[b + 1] = n
    BY <2>4
  <2>7. off + Len(t) <= Len(w) /\ b + 1 + Len(p6) = off + Len(t)
    <3>1. Len(t) = 5 + lc + z + Len(p6)
      BY <1>8, <1>9
    <3> QED
      BY <1>1, <1>4, <1>5, <1>10, <3>1 DEF Lies
  <2>8. \A k \in 1 .. Len(p6) : w[b + 1 + k] = p6[k]
    BY <2>1, <2>5 DEF Lies
  <2> HIDE DEF b
  <2>9. start \in [0 .. n -> Nat] /\ start[0] = b + 1 /\ start[n] = b + 1 + Len(p6)
    <3>1. \A i \in 0 .. n : at[i] \in Nat /\ b + 1 + at[i] \in Nat
      BY <1>7, <2>5
    <3>2. 0 \in 0 .. n /\ n \in 0 .. n
      BY <1>1
    <3>3. b + 1 + 0 = b + 1
      BY <2>5
    <3> QED
      BY <1>7, <3>1, <3>2, <3>3
  <2>10. ASSUME NEW i \in 1 .. n
         PROVE  start[i - 1] + 2 <= Len(w) /\ start[i] = start[i - 1] + 2 + w[start[i - 1] + 2]
    <3>1. i \in 0 .. n /\ i - 1 \in 0 .. n
      BY <1>1
    <3> DEFINE x == at[i - 1]
               y == p6[x + 2]
    <3>2. x \in Nat /\ at[i] = x + 2 + y /\ x + 2 <= Len(p6)
      BY <1>7, <3>1
    <3>3. start[i] = b + 1 + at[i] /\ start[i - 1] = b + 1 + x
      BY <3>1
    <3>4. y \in Nat
      <4>1. x + 2 \in 1 .. Len(p6)
        BY <1>5, <3>2
      <4> HIDE DEF x
      <4> QED
        BY <1>5, <4>1
    <3> HIDE DEF start, x
    <3>5. x + 2 \in 1 .. Len(p6) /\ b + 1 + (x + 2) = b + 1 + x + 2
      BY <1>5, <2>5, <3>2
    <3>6. w[start[i - 1] + 2] = y
      BY <2>8, <3>3, <3>5
    <3> HIDE DEF y
    <3>7. b + 1 + (x + 2 + y) = (b + 1 + x) + 2 + y
      BY <2>5, <3>2, <3>4
    <3>8. start[i - 1] + 2 <= Len(w)
      <4>1. Len(w) \in Nat /\ Len(t) \in Nat
        BY <1>8
      <4>2. (b + 1 + x) + 2 <= Len(w)
        BY <1>5, <2>5, <2>7, <3>2, <4>1
      <4> QED
        BY <3>3, <4>2
    <3> QED
      BY <3>2, <3>3, <3>6, <3>7, <3>8
  <2>11. Chain(w, b, n, start) /\ start[n] = off + Len(t)
    <3> HIDE DEF start
    <3> QED
      BY <2>6, <2>7, <2>9, <2>10 DEF Chain
  <2>12. \E s : Chain(w, b, n, s) /\ s[n] = off + Len(t)
    BY <2>11
  <2> QED
    BY <2>1, <2>2, <2>3, <2>7, <2>12 DEF HasCode, b, lc, h, n, z, t
<1>11. t \in Seq(Nat) /\ Len(t) = 5 + lc + z + Len(p6)
  BY <1>8, <1>9
<1> QED
  BY <1>10, <1>11 DEF t, lc, z, h, p6, n

\* An attribute of a member, with the length it states.
Stated(a) == Len(Inside(a)) - IF a.short THEN 1 ELSE 0

GoodAttribute(a, pool) ==
  /\ a \in Class!AttributeTypes /\ Class!Named("utf8", a.name, pool)
  /\ a.short => a.name = "Code" /\ a.slack = 0

HasAttribute(w, off, a, pool) ==
  /\ off + 2 + Len(Inside(a)) <= Len(w)
  /\ w[off + 1] = Class!NumberOf("utf8", a.name, pool) /\ w[off + 2] = Stated(a)
  /\ a.name = "Code" => HasCode(w, off + 2, a)

LEMMA InsideIs ==
  ASSUME NEW pool \in Seq(PoolTypes), NEW a, GoodAttribute(a, pool)
  PROVE  /\ Inside(a) \in Seq(Nat) /\ Len(Inside(a)) \in Nat /\ Stated(a) \in Nat
         /\ a.name = "Code" => /\ Len(Inside(a)) = Len(CodeText(a)) + a.slack
                               /\ Lies(Inside(a), 0, CodeText(a)) /\ Len(CodeText(a)) >= 5
<1> DEFINE s == Class!Zeros(a.slack)
           e == <<>>
           code == CodeText(a)
<1>1. /\ a \in Class!AttributeTypes /\ a.slack \in Nat /\ a.short \in BOOLEAN
      /\ Len(a.code) \in Nat /\ a.handlers \in Nat /\ a.inner \in Nat
  BY DEF GoodAttribute, Class!AttributeTypes
<1>2. s \in Seq(Nat) /\ Len(s) = a.slack
  BY <1>1, PlainIs
<1>3. code \in Seq(Nat) /\ Len(code) \in Nat /\ Len(code) >= 5
  <2> DEFINE x == Inner(a.inner)
             y == 4 * a.handlers
             l == Len(a.code)
  <2>1. code \in Seq(Nat) /\ Len(code) = 5 + l + y + Len(x)
    BY <1>1, CodeTextIs
  <2>2. Len(x) \in Nat
    <3>1. x \in Seq(Nat)
      BY <1>1, InnerIs
    <3> HIDE DEF x
    <3> QED
      BY <3>1
  <2>3. y \in Nat /\ l \in Nat
    BY <1>1
  <2> HIDE DEF x, y, l, code
  <2> QED
    BY <2>1, <2>2, <2>3
<1> HIDE DEF s, code
<1>4. CASE a.name = "Code"
  <2>1. Inside(a) = code \o s
    BY <1>4 DEF Inside, code, s
  <2>2. code \o s \in Seq(Nat) /\ Len(code \o s) = Len(code) + Len(s) /\ Lies(code \o s, 0, code)
    BY <1>2, <1>3, JoinLies
  <2>3. Len(Inside(a)) = Len(code) + a.slack /\ Inside(a) \in Seq(Nat) /\ Lies(Inside(a), 0, code)
    BY <1>2, <2>1, <2>2
  <2>4. Len(Inside(a)) \in Nat /\ Stated(a) \in Nat
    BY <1>1, <1>3, <2>3 DEF Stated
  <2> QED
    BY <1>3, <2>3, <2>4 DEF code
<1>5. CASE a.name # "Code"
  <2>1. Inside(a) = e \o s
    BY <1>5 DEF Inside, s
  <2>2. e \in Seq(Nat) /\ Len(e) = 0
    OBVIOUS
  <2> HIDE DEF e
  <2>3. e \o s \in Seq(Nat) /\ Len(e \o s) = Len(e) + Len(s)
    BY <1>2, <2>2, JoinLies
  <2>4. Inside(a) \in Seq(Nat) /\ Len(Inside(a)) = a.slack
    BY <1>1, <1>2, <2>1, <2>2, <2>3
  <2>5. ~a.short
    BY <1>5 DEF GoodAttribute
  <2>6. Stated(a) \in Nat /\ Len(Inside(a)) \in Nat
    BY <1>1, <2>4, <2>5 DEF Stated
  <2> QED
    BY <1>5, <2>4, <2>6
<1> QED
  BY <1>4, <1>5

LEMMA AttributeIs ==
  ASSUME NEW pool \in Seq(PoolTypes), NEW a, GoodAttribute(a, pool)
  PROVE  LET t == Class!Attribute(a, pool)
         IN  /\ t \in Seq(Nat) /\ Len(t) = 2 + Len(Inside(a))
             /\ \A w \in Seq(Nat), off \in Nat : Lies(w, off, t) => HasAttribute(w, off, a, pool)
<1> DEFINE n == Class!NumberOf("utf8", a.name, pool)
           h == <<n, Stated(a)>>
           s == Inside(a)
           t == Class!Attribute(a, pool)
<1>1. s \in Seq(Nat) /\ Len(s) \in Nat /\ Stated(a) \in Nat
  BY InsideIs
<1>2. n \in Nat
  <2>1. Class!Named("utf8", a.name, pool)
    BY DEF GoodAttribute
  <2> QED
    BY <2>1, NumberNamed
<1>3. t = h \o s
  BY DEF Class!Attribute, Stated, Inside, CodeText, Inner
<1> HIDE DEF n, s, t
<1>4. h \in Seq(Nat) /\ Len(h) = 2 /\ h[1] = n /\ h[2] = Stated(a)
  BY <1>1, <1>2
<1> HIDE DEF h
<1>5. t \in Seq(Nat) /\ Len(t) = 2 + Len(s) /\ Lies(t, 0, h) /\ Lies(t, 2, s)
  BY <1>1, <1>3, <1>4, JoinLies
<1>6. ASSUME NEW w \in Seq(Nat), NEW off \in Nat, Lies(w, off, t)
      PROVE  HasAttribute(w, off, a, pool)
  <2>1. Lies(w, off + 0, h) /\ Lies(w, off + 2, s)
    <3>1. 0 \in Nat /\ 2 \in Nat
      OBVIOUS
    <3> QED
      BY <1>1, <1>4, <1>5, <1>6, <3>1, LiesWithin
  <2>2. w[off + 1] = n /\ w[off + 2] = Stated(a)
    <3>1. 1 \in 1 .. Len(h) /\ 2 \in 1 .. Len(h) /\ (off + 0) + 1 = off + 1 /\ (off + 0) + 2 = off + 2
      BY <1>4
    <3> QED
      BY <1>4, <2>1, <3>1 DEF Lies
  <2>3. off + 2 + Len(s) <= Len(w)
    BY <2>1 DEF Lies
  <2>4. ASSUME a.name = "Code" PROVE HasCode(w, off + 2, a)
    <3>1. a \in Class!AttributeTypes
      BY DEF GoodAttribute
    <3>2. Lies(s, 0, CodeText(a)) /\ CodeText(a) \in Seq(Nat)
      BY <2>4, <3>1, InsideIs, CodeTextIs DEF s
    <3>3. off + 2 \in Nat /\ (off + 2) + 0 = off + 2 /\ 0 \in Nat
      OBVIOUS
    <3>4. Lies(w, (off + 2) + 0, CodeText(a))
      BY <1>1, <2>1, <3>2, <3>3, LiesWithin
    <3> QED
      BY <3>1, <3>3, <3>4, CodeTextIs
  <2> QED
    BY <2>2, <2>3, <2>4 DEF HasAttribute, n, s
<1> QED
  BY <1>5, <1>6 DEF t, s

\* A member, and where its attributes begin behind its first four numbers.
AttributeTexts(m, pool) == [j \in DOMAIN m.attributes |-> Class!Attribute(m.attributes[j], pool)]
AttributesAt(m, pool) ==
  CHOOSE at : Flat(Nat, Class!FlattenSeq(AttributeTexts(m, pool)), AttributeTexts(m, pool), at)

GoodMember(m, pool) ==
  /\ m \in Class!MemberTypes /\ Class!Named("utf8", m.name, pool)
  /\ \A j \in DOMAIN m.attributes : GoodAttribute(m.attributes[j], pool)

MemberSize(m, pool) == 4 + AttributesAt(m, pool)[Len(m.attributes) + 1]

HasMember(w, off, m, pool) ==
  /\ off + MemberSize(m, pool) <= Len(w)
  /\ w[off + 2] = Class!NumberOf("utf8", m.name, pool) /\ w[off + 4] = Len(m.attributes)
  /\ \A j \in 1 .. Len(m.attributes) :
       HasAttribute(w, off + 4 + AttributesAt(m, pool)[j], m.attributes[j], pool)

LEMMA MemberIs ==
  ASSUME NEW pool \in Seq(PoolTypes), NEW m, GoodMember(m, pool)
  PROVE  LET t == Class!Member(m, pool)
             at == AttributesAt(m, pool)
             n == Len(m.attributes)
         IN  /\ t \in Seq(Nat) /\ Len(t) = MemberSize(m, pool)
             /\ n \in Nat /\ at \in [1 .. n + 1 -> Nat] /\ at[1] = 0 /\ DOMAIN m.attributes = 1 .. n
             /\ \A j \in 1 .. n : at[j + 1] = at[j] + 2 + Len(Inside(m.attributes[j]))
             /\ \A w \in Seq(Nat), off \in Nat : Lies(w, off, t) => HasMember(w, off, m, pool)
<1> DEFINE n == Len(m.attributes)
           x == Class!NumberOf("utf8", m.name, pool)
           h == <<0, x, 0, n>>
           seqs == AttributeTexts(m, pool)
           f == Class!FlattenSeq(seqs)
           at == AttributesAt(m, pool)
           t == Class!Member(m, pool)
<1>1. n \in Nat /\ DOMAIN m.attributes = 1 .. n
  <2>1. m.attributes \in Seq(Class!AttributeTypes)
    BY DEF GoodMember, Class!MemberTypes
  <2> QED
    BY <2>1
<1>2. \A j \in 1 .. n : GoodAttribute(m.attributes[j], pool)
  BY <1>1 DEF GoodMember
<1>3. x \in Nat
  <2>1. Class!Named("utf8", m.name, pool)
    BY DEF GoodMember
  <2> QED
    BY <2>1, NumberNamed
<1>4. t = h \o f
  BY DEF Class!Member, AttributeTexts
<1>5. seqs \in Seq(Seq(Nat)) /\ Len(seqs) = n /\ \A j \in 1 .. n : seqs[j] = Class!Attribute(m.attributes[j], pool)
  <2>1. \A j \in 1 .. n : Class!Attribute(m.attributes[j], pool) \in Seq(Nat)
    BY <1>2, AttributeIs
  <2>2. seqs = [j \in 1 .. n |-> Class!Attribute(m.attributes[j], pool)]
    BY <1>1 DEF AttributeTexts
  <2> HIDE DEF seqs, n
  <2> QED
    BY <1>1, <2>1, <2>2
<1>6. at = CHOOSE s : Flat(Nat, f, seqs, s)
  BY DEF AttributesAt
<1> HIDE DEF n, x, seqs, f, at, t
<1>7. Flat(Nat, f, seqs, at)
  BY <1>5, <1>6, ClassFlattened DEF f
<1>8. /\ f \in Seq(Nat) /\ at \in [1 .. n + 1 -> Nat] /\ at[1] = 0 /\ Len(f) = at[n + 1]
      /\ \A j \in 1 .. n : at[j + 1] = at[j] + Len(seqs[j]) /\ Lies(f, at[j], seqs[j])
  BY <1>5, <1>7, FlatLies
<1>9. h \in Seq(Nat) /\ Len(h) = 4 /\ h[2] = x /\ h[4] = n
  BY <1>1, <1>3
<1> HIDE DEF h
<1>10. t \in Seq(Nat) /\ Len(t) = 4 + Len(f) /\ Lies(t, 0, h) /\ Lies(t, 4, f)
  BY <1>4, <1>8, <1>9, JoinLies
<1>11. ASSUME NEW j \in 1 .. n PROVE at[j + 1] = at[j] + 2 + Len(Inside(m.attributes[j]))
  <2> DEFINE l == Len(Inside(m.attributes[j]))
  <2>1. Len(seqs[j]) = 2 + l /\ l \in Nat
    BY <1>2, <1>5, AttributeIs, InsideIs
  <2>2. at[j] \in Nat /\ at[j + 1] = at[j] + Len(seqs[j])
    <3>1. j \in 1 .. n + 1
      BY <1>1
    <3> QED
      BY <1>8, <3>1
  <2> HIDE DEF l
  <2>3. at[j + 1] = at[j] + (2 + l)
    BY <2>1, <2>2
  <2>4. at[j] + (2 + l) = at[j] + 2 + l
    BY <2>1, <2>2
  <2> QED
    BY <2>3, <2>4 DEF l
<1>12. Len(t) = MemberSize(m, pool)
  BY <1>8, <1>10 DEF MemberSize, at, n
<1>13. ASSUME NEW w \in Seq(Nat), NEW off \in Nat, Lies(w, off, t)
       PROVE  HasMember(w, off, m, pool)
  <2>1. Lies(w, off + 0, h) /\ Lies(w, off + 4, f)
    <3>1. 0 \in Nat /\ 4 \in Nat
      OBVIOUS
    <3> QED
      BY <1>8, <1>9, <1>10, <1>13, <3>1, LiesWithin
  <2>2. w[off + 2] = x /\ w[off + 4] = n
    <3>1. 2 \in 1 .. Len(h) /\ 4 \in 1 .. Len(h) /\ (off + 0) + 2 = off + 2 /\ (off + 0) + 4 = off + 4
      BY <1>9
    <3> QED
      BY <1>9, <2>1, <3>1 DEF Lies
  <2>3. off + MemberSize(m, pool) <= Len(w)
    BY <1>12, <1>13 DEF Lies
  <2>4. ASSUME NEW j \in 1 .. n
        PROVE  HasAttribute(w, off + 4 + at[j], m.attributes[j], pool)
    <3>1. at[j] \in Nat /\ off + 4 \in Nat /\ off + 4 + at[j] \in Nat
      <4>1. j \in 1 .. n + 1
        BY <1>1
      <4>2. at[j] \in Nat
        BY <1>8, <4>1
      <4> QED
        BY <4>2
    <3>2. Lies(f, at[j], seqs[j]) /\ seqs[j] \in Seq(Nat)
      BY <1>5, <1>8
    <3>3. Lies(w, (off + 4) + at[j], seqs[j])
      BY <1>8, <2>1, <3>1, <3>2, LiesWithin
    <3> QED
      BY <1>2, <1>5, <3>1, <3>3, AttributeIs
  <2> QED
    BY <2>2, <2>3, <2>4 DEF HasMember, x, n, at
<1> QED
  BY <1>1, <1>8, <1>10, <1>11, <1>12, <1>13 DEF t, at, n

\* The members of one kind, behind their number.
MemberTexts(ms, pool) == [i \in DOMAIN ms |-> Class!Member(ms[i], pool)]
MembersAt(ms, pool) ==
  CHOOSE at : Flat(Nat, Class!FlattenSeq(MemberTexts(ms, pool)), MemberTexts(ms, pool), at)

GoodMembers(ms, pool) == ms \in Seq(Class!MemberTypes) /\ \A i \in DOMAIN ms : GoodMember(ms[i], pool)

MembersSize(ms, pool) == 1 + MembersAt(ms, pool)[Len(ms) + 1]

HasMembers(w, off, ms, pool) ==
  /\ off + MembersSize(ms, pool) <= Len(w)
  /\ w[off + 1] = Len(ms)
  /\ \A i \in 1 .. Len(ms) : HasMember(w, off + 1 + MembersAt(ms, pool)[i], ms[i], pool)

LEMMA MembersAre ==
  ASSUME NEW pool \in Seq(PoolTypes), NEW ms, GoodMembers(ms, pool)
  PROVE  LET t == Class!Members(ms, pool)
             at == MembersAt(ms, pool)
             n == Len(ms)
         IN  /\ t \in Seq(Nat) /\ Len(t) = MembersSize(ms, pool)
             /\ n \in Nat /\ at \in [1 .. n + 1 -> Nat] /\ at[1] = 0 /\ DOMAIN ms = 1 .. n
             /\ \A i \in 1 .. n : at[i + 1] = at[i] + MemberSize(ms[i], pool)
             /\ \A w \in Seq(Nat), off \in Nat : Lies(w, off, t) => HasMembers(w, off, ms, pool)
<1> DEFINE n == Len(ms)
           h == <<n>>
           seqs == MemberTexts(ms, pool)
           f == Class!FlattenSeq(seqs)
           at == MembersAt(ms, pool)
           t == Class!Members(ms, pool)
<1>1. n \in Nat /\ DOMAIN ms = 1 .. n
  <2>1. ms \in Seq(Class!MemberTypes)
    BY DEF GoodMembers
  <2> QED
    BY <2>1
<1>2. \A i \in 1 .. n : GoodMember(ms[i], pool)
  BY <1>1 DEF GoodMembers
<1>3. t = h \o f
  BY DEF Class!Members, MemberTexts
<1>4. /\ seqs \in Seq(Seq(Nat)) /\ Len(seqs) = n /\ \A i \in 1 .. n : seqs[i] = Class!Member(ms[i], pool)
      /\ \A i \in 1 .. n : Len(seqs[i]) = MemberSize(ms[i], pool)
  <2>1. \A i \in 1 .. n : Class!Member(ms[i], pool) \in Seq(Nat)
                          /\ Len(Class!Member(ms[i], pool)) = MemberSize(ms[i], pool)
    BY <1>2, MemberIs
  <2>2. seqs = [i \in 1 .. n |-> Class!Member(ms[i], pool)]
    BY <1>1 DEF MemberTexts
  <2> HIDE DEF seqs, n
  <2> QED
    BY <1>1, <2>1, <2>2
<1>5. at = CHOOSE s : Flat(Nat, f, seqs, s)
  BY DEF MembersAt
<1> HIDE DEF n, seqs, f, at, t
<1>6. Flat(Nat, f, seqs, at)
  BY <1>4, <1>5, ClassFlattened DEF f
<1>7. /\ f \in Seq(Nat) /\ at \in [1 .. n + 1 -> Nat] /\ at[1] = 0 /\ Len(f) = at[n + 1]
      /\ \A i \in 1 .. n : at[i + 1] = at[i] + Len(seqs[i]) /\ Lies(f, at[i], seqs[i])
  BY <1>4, <1>6, FlatLies
<1>8. h \in Seq(Nat) /\ Len(h) = 1 /\ h[1] = n
  BY <1>1
<1> HIDE DEF h
<1>9. t \in Seq(Nat) /\ Len(t) = 1 + Len(f) /\ Lies(t, 0, h) /\ Lies(t, 1, f)
  BY <1>3, <1>7, <1>8, JoinLies
<1>10. Len(t) = MembersSize(ms, pool)
  BY <1>7, <1>9 DEF MembersSize, at, n
<1>11. ASSUME NEW w \in Seq(Nat), NEW off \in Nat, Lies(w, off, t)
       PROVE  HasMembers(w, off, ms, pool)
  <2>1. Lies(w, off + 0, h) /\ Lies(w, off + 1, f)
    <3>1. 0 \in Nat /\ 1 \in Nat
      OBVIOUS
    <3> QED
      BY <1>7, <1>8, <1>9, <1>11, <3>1, LiesWithin
  <2>2. w[off + 1] = n
    <3>1. 1 \in 1 .. Len(h) /\ (off + 0) + 1 = off + 1
      BY <1>8
    <3> QED
      BY <1>8, <2>1, <3>1 DEF Lies
  <2>3. off + MembersSize(ms, pool) <= Len(w)
    BY <1>10, <1>11 DEF Lies
  <2>4. ASSUME NEW i \in 1 .. n
        PROVE  HasMember(w, off + 1 + at[i], ms[i], pool)
    <3>1. at[i] \in Nat /\ off + 1 \in Nat /\ off + 1 + at[i] \in Nat
      <4>1. i \in 1 .. n + 1
        BY <1>1
      <4>2. at[i] \in Nat
        BY <1>7, <4>1
      <4> QED
        BY <4>2
    <3>2. Lies(f, at[i], seqs[i]) /\ seqs[i] \in Seq(Nat)
      BY <1>4, <1>7
    <3>3. Lies(w, (off + 1) + at[i], seqs[i])
      BY <1>7, <2>1, <3>1, <3>2, LiesWithin
    <3> QED
      BY <1>2, <1>4, <3>1, <3>3, MemberIs
  <2> QED
    BY <2>2, <2>3, <2>4 DEF HasMembers, n, at
<1> QED
  BY <1>1, <1>4, <1>7, <1>9, <1>10, <1>11 DEF t, at, n

-----------------------------------------------------------------------------
\* A class as it is written: where its fields, its methods and its attribute lie.
Jvms == {c \in Classes : Class!Compiled(c)}

FieldsAt(c)  == 4 + Len(c.interfaces)
MethodsAt(c) == FieldsAt(c) + MembersSize(c.fields, c.pool)
EndAt(c)     == MethodsAt(c) + MembersSize(c.methods, c.pool)

LEMMA JvmIs ==
  ASSUME NEW c \in Jvms
  PROVE  /\ c.pool \in Seq(PoolTypes) /\ GoodMembers(c.fields, c.pool) /\ GoodMembers(c.methods, c.pool)
         /\ Len(c.interfaces) \in Nat /\ DOMAIN c.interfaces = 1 .. Len(c.interfaces)
         /\ c.interfaces \in Seq(STRING)
<1>1. Class!Compiled(c)
  BY DEF Jvms
<1>2. c.pool \in Seq(PoolTypes) /\ c.fields \in Seq(Class!MemberTypes) /\ c.methods \in Seq(Class!MemberTypes)
  BY <1>1 DEF Class!Compiled, PoolTypes
<1>3. Class!NamesKnown(c.fields, c.pool) /\ Class!NamesKnown(c.methods, c.pool)
  BY <1>1 DEF Class!Compiled
<1>4. /\ \A i \in DOMAIN c.fields : \A j \in DOMAIN c.fields[i].attributes : ~c.fields[i].attributes[j].short
      /\ \A i \in DOMAIN c.methods : \A j \in DOMAIN c.methods[i].attributes :
           c.methods[i].attributes[j].short =>
             c.methods[i].attributes[j].name = "Code" /\ c.methods[i].attributes[j].slack = 0
  BY <1>1 DEF Class!Compiled
<1>5. ASSUME NEW ms \in Seq(Class!MemberTypes), Class!NamesKnown(ms, c.pool),
             \A i \in DOMAIN ms : \A j \in DOMAIN ms[i].attributes :
               ms[i].attributes[j].short => ms[i].attributes[j].name = "Code" /\ ms[i].attributes[j].slack = 0
      PROVE  GoodMembers(ms, c.pool)
  <2>1. ASSUME NEW i \in DOMAIN ms PROVE GoodMember(ms[i], c.pool)
    <3> DEFINE m == ms[i]
               as == ms[i].attributes
    <3>1. m \in Class!MemberTypes
      BY <1>5, <2>1
    <3>2. as \in Seq(Class!AttributeTypes)
      BY <3>1 DEF Class!MemberTypes
    <3>3. /\ Class!Named("utf8", m.name, c.pool)
          /\ \A j \in DOMAIN as : Class!Named("utf8", as[j].name, c.pool)
      BY <1>5, <2>1 DEF Class!NamesKnown
    <3>4. ASSUME NEW j \in DOMAIN as PROVE GoodAttribute(as[j], c.pool)
      <4>1. as[j] \in Class!AttributeTypes
        <5>1. j \in 1 .. Len(as)
          <6>1. DOMAIN as = 1 .. Len(as)
            BY <3>2
          <6> QED
            BY <3>4, <6>1
        <5> QED
          BY <3>2, <5>1, ElementOfSeq
      <4>2. as[j].short => as[j].name = "Code" /\ as[j].slack = 0
        BY <1>5, <2>1, <3>4
      <4> QED
        BY <3>3, <3>4, <4>1, <4>2 DEF GoodAttribute
    <3> QED
      BY <3>1, <3>3, <3>4 DEF GoodMember
  <2> QED
    BY <1>5, <2>1 DEF GoodMembers
<1>6. GoodMembers(c.fields, c.pool) /\ GoodMembers(c.methods, c.pool)
  BY <1>2, <1>3, <1>4, <1>5
<1>7. c.interfaces \in Seq(STRING)
  BY <1>1 DEF Class!Compiled
<1>8. Len(c.interfaces) \in Nat /\ DOMAIN c.interfaces = 1 .. Len(c.interfaces)
  BY <1>7
<1> QED
  BY <1>2, <1>6, <1>7, <1>8

HasHeader(w, c) ==
  /\ w[2] = Class!NumberOf(c.this.kind, c.this.text, c.pool) /\ w[4] = Len(c.interfaces)
  /\ \A i \in 1 .. Len(c.interfaces) : w[4 + i] = Class!NumberOf("class", c.interfaces[i], c.pool)

LEMMA WrittenIs ==
  ASSUME NEW c \in Jvms
  PROVE  LET w == Class!Written(c)
         IN  /\ w \in Seq(Nat) /\ FieldsAt(c) \in Nat /\ MethodsAt(c) \in Nat /\ EndAt(c) \in Nat
             /\ Len(w) = EndAt(c) + 4
             /\ HasHeader(w, c)
             /\ HasMembers(w, FieldsAt(c), c.fields, c.pool)
             /\ HasMembers(w, MethodsAt(c), c.methods, c.pool)
             /\ w[EndAt(c) + 1] = 1 /\ w[EndAt(c) + 3] = 1
<1> DEFINE ni == Len(c.interfaces)
           x == Class!NumberOf(c.this.kind, c.this.text, c.pool)
           num(i) == Class!NumberOf("class", c.interfaces[i], c.pool)
           p1 == <<0, x, 0, ni>>
           p2 == [i \in DOMAIN c.interfaces |-> num(i)]
           p3 == Class!Members(c.fields, c.pool)
           p4 == Class!Members(c.methods, c.pool)
           p5 == <<1>>
           p6 == Class!Plain(1)
           u == p1 \o p2 \o p3 \o p4 \o p5 \o p6
           w == Class!Written(c)
           fs == MembersSize(c.fields, c.pool)
           ms == MembersSize(c.methods, c.pool)
<1>1. /\ c.pool \in Seq(PoolTypes) /\ GoodMembers(c.fields, c.pool) /\ GoodMembers(c.methods, c.pool)
      /\ ni \in Nat /\ DOMAIN c.interfaces = 1 .. ni
  BY JvmIs
<1>2. x \in Nat /\ \A i \in 1 .. ni : num(i) \in Nat
  <2>1. /\ Class!Named(c.this.kind, c.this.text, c.pool)
        /\ \A i \in 1 .. ni : Class!Named("class", c.interfaces[i], c.pool)
    BY <1>1 DEF Jvms, Class!Compiled
  <2> QED
    BY <1>1, <2>1, NumberNamed
<1>3. w = u
  BY DEF Class!Written
<1> HIDE DEF ni, x
<1>4. p1 \in Seq(Nat) /\ Len(p1) = 4 /\ p1[2] = x /\ p1[4] = ni
  BY <1>1, <1>2
<1>5. p2 \in Seq(Nat) /\ Len(p2) = ni /\ \A i \in 1 .. ni : p2[i] = num(i)
  <2> HIDE DEF num
  <2>1. p2 = [i \in 1 .. ni |-> num(i)]
    BY <1>1
  <2> HIDE DEF p2
  <2> QED
    BY <1>1, <1>2, <2>1
<1>6. p3 \in Seq(Nat) /\ Len(p3) = fs /\ p4 \in Seq(Nat) /\ Len(p4) = ms
  BY <1>1, MembersAre
<1>7. p5 \in Seq(Nat) /\ Len(p5) = 1 /\ p5[1] = 1
  OBVIOUS
<1>8. p6 \in Seq(Nat) /\ Len(p6) = 3 /\ p6[2] = 1
  <2>1. p6 \in Seq(Nat) /\ Len(p6) = 2 + 1 /\ p6[2] = 1
    <3> HIDE DEF p1, p2, p3, p4, p5, u, w, fs, ms
    <3> QED
      BY PlainIs
  <2> QED
    BY <2>1
<1> HIDE DEF p1, p2, p3, p4, p5, p6, fs, ms, num, w
<1>9. /\ u \in Seq(Nat) /\ Len(u) = Len(p1) + Len(p2) + Len(p3) + Len(p4) + Len(p5) + Len(p6)
      /\ Lies(u, 0, p1) /\ Lies(u, Len(p1), p2) /\ Lies(u, Len(p1) + Len(p2), p3)
      /\ Lies(u, Len(p1) + Len(p2) + Len(p3), p4)
      /\ Lies(u, Len(p1) + Len(p2) + Len(p3) + Len(p4), p5)
      /\ Lies(u, Len(p1) + Len(p2) + Len(p3) + Len(p4) + Len(p5), p6)
  <2>1. p1 \in Seq(Nat) /\ p2 \in Seq(Nat) /\ p3 \in Seq(Nat) /\ p4 \in Seq(Nat) /\ p5 \in Seq(Nat) /\ p6 \in Seq(Nat)
    BY <1>4, <1>5, <1>6, <1>7, <1>8
  <2> QED
    BY <2>1, SixParts
<1>10. fs \in Nat /\ ms \in Nat
  BY <1>6
<1>11. /\ FieldsAt(c) = 4 + ni /\ MethodsAt(c) = 4 + ni + fs /\ EndAt(c) = 4 + ni + fs + ms
  BY DEF FieldsAt, MethodsAt, EndAt, ni, fs, ms
<1> HIDE DEF u
<1>12. /\ w \in Seq(Nat) /\ Len(w) = EndAt(c) + 4
       /\ Lies(w, 0, p1) /\ Lies(w, 4, p2) /\ Lies(w, FieldsAt(c), p3)
       /\ Lies(w, MethodsAt(c), p4) /\ Lies(w, EndAt(c), p5) /\ Lies(w, EndAt(c) + 1, p6)
  <2>1. /\ Len(p1) = 4 /\ Len(p1) + Len(p2) = FieldsAt(c) /\ Len(p1) + Len(p2) + Len(p3) = MethodsAt(c)
        /\ Len(p1) + Len(p2) + Len(p3) + Len(p4) = EndAt(c)
        /\ Len(p1) + Len(p2) + Len(p3) + Len(p4) + Len(p5) = EndAt(c) + 1
        /\ Len(p1) + Len(p2) + Len(p3) + Len(p4) + Len(p5) + Len(p6) = EndAt(c) + 4
    BY <1>1, <1>4, <1>5, <1>6, <1>7, <1>8, <1>10, <1>11
  <2> QED
    BY <1>3, <1>9, <2>1
<1>13. FieldsAt(c) \in Nat /\ MethodsAt(c) \in Nat /\ EndAt(c) \in Nat
  BY <1>1, <1>10, <1>11
<1>14. /\ HasMembers(w, FieldsAt(c), c.fields, c.pool)
       /\ HasMembers(w, MethodsAt(c), c.methods, c.pool)
  BY <1>1, <1>12, <1>13, MembersAre DEF p3, p4
<1>15. w[2] = x /\ w[4] = ni
  <2>1. 2 \in 1 .. Len(p1) /\ 4 \in 1 .. Len(p1) /\ 0 + 2 = 2 /\ 0 + 4 = 4
    BY <1>4
  <2> QED
    BY <1>4, <1>12, <2>1 DEF Lies
<1>16. \A i \in 1 .. ni : w[4 + i] = num(i)
  BY <1>5, <1>12 DEF Lies
<1>17. w[EndAt(c) + 1] = 1
  <2>1. 1 \in 1 .. Len(p5)
    BY <1>7
  <2> QED
    BY <1>7, <1>12, <2>1 DEF Lies
<1>18. w[EndAt(c) + 3] = 1
  <2>1. 2 \in 1 .. Len(p6) /\ (EndAt(c) + 1) + 2 = EndAt(c) + 3
    BY <1>8, <1>13
  <2> QED
    BY <1>8, <1>12, <2>1 DEF Lies
<1>19. HasHeader(w, c)
  BY <1>15, <1>16 DEF HasHeader, x, ni, num
<1> QED
  BY <1>12, <1>13, <1>14, <1>17, <1>18, <1>19 DEF w

-----------------------------------------------------------------------------
\* What of a class is in the file.
Held(c) == LET left == Len(Class!Written(c)) - c.cut IN IF left < 0 THEN 0 ELSE left
Kept(c) == LET left == Len(Class!Written(c)) - c.cut IN Len(c.pool) + IF left < 0 THEN left ELSE 0
Given(c) ==
  [class |-> c, count |-> Class!NumbersOf(c.pool)[Len(c.pool) + 1] - c.torn,
   pool |-> SubSeq(Class!Stored(c), 1, Kept(c)), rest |-> SubSeq(Class!Written(c), 1, Held(c))]

LEMMA RestIs ==
  ASSUME NEW c \in Jvms, input = Given(c)
  PROVE  LET w == Class!Written(c) IN
         /\ Len(w) \in Nat /\ Held(c) \in Nat /\ Held(c) <= Len(w) /\ Len(input.rest) = Held(c)
         /\ \A i \in 1 .. Held(c) : input.rest[i] = w[i] /\ w[i] \in Nat
         /\ c.cut = 0 => Held(c) = Len(w)
         /\ c.cut # 0 => Held(c) < Len(w)
         /\ Kept(c) \in 0 .. Len(c.pool) /\ (c.cut = 0 => Kept(c) = Len(c.pool))
<1> DEFINE w == Class!Written(c)
           n == Len(c.pool)
           h == Held(c)
<1>1. w \in Seq(Nat) /\ Len(w) >= 4
  <2>1. w \in Seq(Nat) /\ Len(w) = EndAt(c) + 4 /\ EndAt(c) \in Nat
    BY WrittenIs
  <2> HIDE DEF w
  <2> QED
    BY <2>1
<1>2. n \in Nat
  <2>1. c.pool \in Seq(PoolTypes)
    BY JvmIs
  <2> QED
    BY <2>1
<1>3. c.cut \in 0 .. Len(w) + n
  BY DEF Jvms, Class!Compiled
<1>4. /\ h = IF Len(w) - c.cut < 0 THEN 0 ELSE Len(w) - c.cut
      /\ Kept(c) = n + IF Len(w) - c.cut < 0 THEN Len(w) - c.cut ELSE 0
  BY DEF Held, Kept
<1>5. input.rest = SubSeq(w, 1, h)
  BY DEF Given
<1> HIDE DEF w, h, n
<1>6. Len(w) \in Nat /\ c.cut \in Nat
  BY <1>1, <1>2, <1>3
<1>7. h \in Nat /\ h <= Len(w) /\ (c.cut = 0 => h = Len(w)) /\ (c.cut # 0 => h < Len(w))
  BY <1>1, <1>4, <1>6
<1>8. Kept(c) \in 0 .. n /\ (c.cut = 0 => Kept(c) = n)
  BY <1>2, <1>3, <1>4, <1>6
<1>9. Len(input.rest) = h /\ \A i \in 1 .. h : input.rest[i] = w[i] /\ w[i] \in Nat
  BY <1>1, <1>5, <1>6, <1>7
<1> QED
  BY <1>6, <1>7, <1>8, <1>9 DEF w, h, n

\* Attributes are skipped to where they end, as far as that is in the file.
LEMMA Skips ==
  ASSUME NEW c \in Jvms, input = Given(c), NEW off \in Nat, NEW n \in Nat, NEW start,
         Chain(Class!Written(c), off, n, start)
  PROVE  /\ start[n] \in Nat /\ start[n] >= off + 1
         /\ Class!SkipAttributes(off + 1) = IF start[n] <= Held(c) THEN start[n] + 1 ELSE Held(c) + 2
<1> DEFINE w == Class!Written(c)
           h == Held(c)
           r == input.rest
           p == off + 1
           new(at) == IF ~Class!Readable(at + 1) THEN Class!Beyond ELSE Class!Sought(at + 2 + r[at + 1])
           F(f) == [i \in 0 .. r[p] |-> IF i = 0 THEN p + 1 ELSE new(f[i - 1])]
           f == CHOOSE g : g = F(g)
           end(i) == IF start[i] <= h THEN start[i] + 1 ELSE h + 2
           g == [i \in 0 .. n |-> end(i)]
<1>1. /\ h \in Nat /\ Len(w) \in Nat /\ h <= Len(w) /\ Len(r) = h
      /\ \A i \in 1 .. h : r[i] = w[i] /\ w[i] \in Nat
  BY RestIs
<1>2. /\ w[p] = n /\ start \in [0 .. n -> Nat] /\ start[0] = p
      /\ \A i \in 1 .. n : start[i - 1] + 2 <= Len(w) /\ start[i] = start[i - 1] + 2 + w[start[i - 1] + 2]
      /\ start[n] <= Len(w)
  BY DEF Chain
<1>3. w \in Seq(Nat)
  BY WrittenIs
<1>4. Class!SkipAttributes(p) = IF ~Class!Readable(p) THEN Class!Beyond ELSE f[r[p]]
  BY DEF Class!SkipAttributes, Class!Rest
<1>5. /\ \A x \in Nat : Class!Readable(x) <=> x <= h
      /\ Class!Beyond = h + 2
      /\ \A x \in Nat : Class!Sought(x) = IF x > h + 1 THEN h + 2 ELSE x
  BY <1>1 DEF Class!Readable, Class!Beyond, Class!Sought, Class!Rest
<1> HIDE DEF w, h, r
<1>6. \A i \in 0 .. n : start[i] \in Nat
  BY <1>2
<1>7. \A i \in 1 .. n : i - 1 \in 0 .. n /\ i \in 0 .. n
  OBVIOUS
<1>8. ASSUME NEW i \in 1 .. n
      PROVE  /\ w[start[i - 1] + 2] \in Nat /\ start[i - 1] <= start[i]
             /\ new(end(i - 1)) = end(i)
  <2> DEFINE a == start[i - 1]
             b == start[i]
             x == w[a + 2]
  <2>1. a \in Nat /\ b \in Nat /\ a + 2 <= Len(w) /\ b = a + 2 + x
    BY <1>2, <1>6, <1>7
  <2>2. x \in Nat
    <3>1. a + 2 \in 1 .. Len(w)
      BY <1>1, <2>1
    <3> HIDE DEF a
    <3> QED
      BY <1>3, <3>1, ElementOfSeq
  <2> HIDE DEF a, b
  <2>3. CASE a > h
    <3>1. (IF a <= h THEN a + 1 ELSE h + 2) = h + 2 /\ (IF b <= h THEN b + 1 ELSE h + 2) = h + 2
      <4> HIDE DEF x
      <4> QED
        BY <1>1, <2>1, <2>2, <2>3
    <3>2. ~Class!Readable((h + 2) + 1)
      BY <1>1, <1>5
    <3> QED
      BY <1>5, <2>1, <2>2, <3>1, <3>2 DEF a, b
  <2>4. CASE a <= h /\ a + 2 > h
    <3>1. (IF a <= h THEN a + 1 ELSE h + 2) = a + 1 /\ (IF b <= h THEN b + 1 ELSE h + 2) = h + 2
      <4> HIDE DEF x
      <4> QED
        BY <1>1, <2>1, <2>2, <2>4
    <3>2. ~Class!Readable((a + 1) + 1)
      BY <1>1, <1>5, <2>1, <2>4
    <3> QED
      BY <1>5, <2>1, <2>2, <3>1, <3>2 DEF a, b
  <2>5. CASE a + 2 <= h
    <3>1. (IF a <= h THEN a + 1 ELSE h + 2) = a + 1 /\ (a + 1) + 1 = a + 2 /\ a + 2 \in 1 .. h
      BY <1>1, <2>1, <2>5
    <3>2. Class!Readable((a + 1) + 1) /\ r[(a + 1) + 1] = x
      BY <1>1, <1>5, <2>5, <3>1
    <3>3. Class!Sought((a + 1) + 2 + x) = IF b <= h THEN b + 1 ELSE h + 2
      <4> HIDE DEF x
      <4>1. (a + 1) + 2 + x = b + 1 /\ b + 1 \in Nat /\ (b + 1 > h + 1 <=> ~(b <= h))
        BY <1>1, <2>1, <2>2
      <4> QED
        BY <1>5, <4>1
    <3>4. a <= b
      <4> HIDE DEF x
      <4> QED
        BY <2>1, <2>2
    <3> QED
      BY <2>2, <3>1, <3>2, <3>3, <3>4 DEF a, b
  <2>6. a <= b
    <3> HIDE DEF x
    <3> QED
      BY <2>1, <2>2
  <2> QED
    BY <1>1, <2>1, <2>2, <2>3, <2>4, <2>5, <2>6 DEF a, b
<1> HIDE DEF new, end
<1> DEFINE Above(i) == i \in 0 .. n => start[0] <= start[i]
           S == {i \in Nat : Above(i)}
<1>9. ASSUME NEW i \in Nat, Above(i) PROVE Above(i + 1)
  <2> SUFFICES ASSUME i + 1 \in 0 .. n PROVE start[0] <= start[i + 1]
    OBVIOUS
  <2> DEFINE k == i + 1
  <2>1. k \in 1 .. n /\ k - 1 = i /\ i \in 0 .. n /\ k \in 0 .. n /\ 0 \in 0 .. n
    OBVIOUS
  <2> HIDE DEF k
  <2>2. start[i] <= start[k] /\ start[0] <= start[i]
    BY <1>8, <1>9, <2>1
  <2>3. start[0] \in Nat /\ start[i] \in Nat /\ start[k] \in Nat
    BY <1>6, <2>1
  <2> QED
    BY <2>2, <2>3 DEF k
<1>10. start[n] \in Nat /\ start[n] >= p
  <2>1. Above(0)
    BY <1>6
  <2> HIDE DEF Above
  <2>2. S \in SUBSET Nat /\ 0 \in S /\ \A i \in S : i + 1 \in S
    BY <1>9, <2>1
  <2> HIDE DEF S
  <2>3. n \in S
    BY <2>2, Induction
  <2>4. Above(n)
    BY <2>3 DEF S
  <2>5. n \in 0 .. n
    OBVIOUS
  <2> QED
    BY <1>2, <1>6, <2>4, <2>5 DEF Above
<1> HIDE DEF Above, S
<1>11. CASE ~Class!Readable(p)
  <2>1. ~(start[n] <= h)
    BY <1>1, <1>5, <1>10, <1>11
  <2> QED
    BY <1>4, <1>5, <1>10, <1>11, <2>1 DEF h
<1>12. CASE Class!Readable(p)
  <2>1. p \in 1 .. h /\ r[p] = n
    BY <1>1, <1>2, <1>5, <1>12
  <2>2. end(0) = p + 1
    BY <1>1, <1>2, <2>1 DEF end
  <2>3. g = F(g)
    <3>1. \A i \in 1 .. n : g[i - 1] = end(i - 1)
      BY <1>7
    <3>2. \A i \in 0 .. n : i # 0 => i \in 1 .. n
      OBVIOUS
    <3>3. \A i \in 0 .. n : end(i) = IF i = 0 THEN p + 1 ELSE new(g[i - 1])
      <4> HIDE DEF g
      <4> QED
        BY <1>8, <2>2, <3>1, <3>2
    <3> QED
      BY <2>1, <3>3
  <2>4. f = F(f)
    BY <2>3
  <2> HIDE DEF f, g
  <2>5. \A i \in 0 .. n : f[i] = IF i = 0 THEN p + 1 ELSE new(f[i - 1])
    BY <2>1, <2>4
  <2> HIDE DEF F
  <2> DEFINE Good(i) == i \in 0 .. n => f[i] = end(i)
             T == {i \in Nat : Good(i)}
  <2>6. ASSUME NEW i \in Nat, Good(i) PROVE Good(i + 1)
    <3> SUFFICES ASSUME i + 1 \in 0 .. n PROVE f[i + 1] = end(i + 1)
      OBVIOUS
    <3> DEFINE k == i + 1
    <3>1. k \in 1 .. n /\ k - 1 = i /\ i \in 0 .. n /\ k \in 0 .. n /\ k # 0
      OBVIOUS
    <3> HIDE DEF k
    <3>2. f[k] = new(f[i]) /\ f[i] = end(i) /\ new(end(i)) = end(k)
      BY <1>8, <2>5, <2>6, <3>1
    <3> QED
      BY <3>2 DEF k
  <2>7. Good(n)
    <3>1. Good(0)
      BY <2>2, <2>5
    <3> HIDE DEF Good
    <3>2. T \in SUBSET Nat /\ 0 \in T /\ \A i \in T : i + 1 \in T
      BY <2>6, <3>1
    <3> HIDE DEF T
    <3>3. n \in T
      BY <3>2, Induction
    <3> QED
      BY <3>3 DEF T
  <2>8. f[n] = end(n)
    BY <2>7
  <2> HIDE DEF Good, T
  <2> QED
    BY <1>4, <1>10, <1>12, <2>1, <2>8 DEF end, h
<1> QED
  BY <1>11, <1>12

LEMMA MemberChain ==
  ASSUME NEW pool \in Seq(PoolTypes), NEW m, GoodMember(m, pool), NEW w \in Seq(Nat), NEW off \in Nat,
         HasMember(w, off, m, pool), \A j \in 1 .. Len(m.attributes) : ~m.attributes[j].short
  PROVE  \E start : /\ Chain(w, off + 3, Len(m.attributes), start)
                    /\ start[Len(m.attributes)] = off + MemberSize(m, pool)
<1> DEFINE n == Len(m.attributes)
           at == AttributesAt(m, pool)
           size(j) == Len(Inside(m.attributes[j]))
           start == [j \in 0 .. n |-> off + 4 + at[j + 1]]
<1>1. /\ n \in Nat /\ at \in [1 .. n + 1 -> Nat] /\ at[1] = 0 /\ DOMAIN m.attributes = 1 .. n
      /\ \A j \in 1 .. n : at[j + 1] = at[j] + 2 + size(j)
  BY MemberIs
<1>2. /\ off + MemberSize(m, pool) <= Len(w) /\ w[off + 4] = n
      /\ \A j \in 1 .. n : HasAttribute(w, off + 4 + at[j], m.attributes[j], pool)
  BY DEF HasMember
<1>3. MemberSize(m, pool) = 4 + at[n + 1]
  BY DEF MemberSize
<1>4. \A j \in 1 .. n : GoodAttribute(m.attributes[j], pool) /\ ~m.attributes[j].short
  BY <1>1 DEF GoodMember
<1>5. ASSUME NEW j \in 1 .. n
      PROVE  /\ off + 4 + at[j] + 2 + size(j) <= Len(w) /\ size(j) \in Nat
             /\ w[off + 4 + at[j] + 2] = size(j)
  <2>1. HasAttribute(w, off + 4 + at[j], m.attributes[j], pool)
    BY <1>2
  <2>2. size(j) \in Nat /\ Stated(m.attributes[j]) = size(j) - 0
    BY <1>4, InsideIs DEF Stated
  <2> HIDE DEF at
  <2>3. /\ off + 4 + at[j] + 2 + size(j) <= Len(w)
        /\ w[off + 4 + at[j] + 2] = Stated(m.attributes[j])
    BY <2>1 DEF HasAttribute
  <2> HIDE DEF size
  <2>4. size(j) - 0 = size(j)
    BY <2>2
  <2> QED
    BY <2>2, <2>3, <2>4
<1> HIDE DEF n, at, size
<1>6. start \in [0 .. n -> Nat] /\ start[0] = off + 3 + 1 /\ start[n] = off + 4 + at[n + 1]
  <2>1. \A j \in 0 .. n : j + 1 \in 1 .. n + 1 /\ at[j + 1] \in Nat
    BY <1>1
  <2>2. 0 \in 0 .. n /\ n \in 0 .. n /\ at[0 + 1] = 0
    BY <1>1
  <2>3. \A j \in 0 .. n : off + 4 + at[j + 1] \in Nat
    BY <2>1
  <2>4. start \in [0 .. n -> Nat] /\ start[0] = off + 4 + at[0 + 1] /\ start[n] = off + 4 + at[n + 1]
    BY <2>2, <2>3
  <2> HIDE DEF start
  <2>5. off + 4 + 0 = off + 3 + 1
    OBVIOUS
  <2> QED
    BY <2>2, <2>4, <2>5
<1>7. ASSUME NEW j \in 1 .. n
      PROVE  start[j - 1] + 2 <= Len(w) /\ start[j] = start[j - 1] + 2 + w[start[j - 1] + 2]
  <2>1. j \in 0 .. n /\ j - 1 \in 0 .. n /\ (j - 1) + 1 = j /\ j \in 1 .. n + 1
    BY <1>1
  <2>2. start[j] = off + 4 + at[j + 1] /\ start[j - 1] = off + 4 + at[j]
    BY <2>1
  <2> HIDE DEF start
  <2>3. at[j] \in Nat /\ at[j + 1] = at[j] + 2 + size(j) /\ size(j) \in Nat
    BY <1>1, <1>5, <2>1
  <2>4. off + 4 + at[j] + 2 + size(j) <= Len(w) /\ w[off + 4 + at[j] + 2] = size(j) /\ Len(w) \in Nat
    BY <1>5
  <2> DEFINE a == at[j]
             s == size(j)
  <2>5. off + 4 + a + 2 <= Len(w) /\ off + 4 + (a + 2 + s) = (off + 4 + a) + 2 + s
    <3>1. a \in Nat /\ s \in Nat /\ Len(w) \in Nat /\ off + 4 + a + 2 + s <= Len(w)
      BY <2>3, <2>4
    <3> HIDE DEF a, s
    <3> QED
      BY <3>1
  <2> QED
    BY <2>2, <2>3, <2>4, <2>5
<1>8. Chain(w, off + 3, n, start)
  <2>1. start[n] <= Len(w) /\ (off + 3) + 1 = off + 4
    <3>1. at[n + 1] \in Nat /\ n \in Nat
      BY <1>1
    <3>2. off + (4 + at[n + 1]) = off + 4 + at[n + 1]
      BY <3>1
    <3> HIDE DEF start
    <3> QED
      BY <1>2, <1>3, <1>6, <3>1, <3>2
  <2> HIDE DEF start
  <2> QED
    BY <1>2, <1>6, <1>7, <2>1 DEF Chain
<1>9. start[n] = off + MemberSize(m, pool)
  <2> DEFINE x == at[n + 1]
  <2>1. x \in Nat
    BY <1>1
  <2>2. start[n] = off + 4 + x /\ MemberSize(m, pool) = 4 + x
    BY <1>3, <1>6
  <2> HIDE DEF x, start
  <2>3. off + (4 + x) = off + 4 + x
    BY <2>1
  <2> QED
    BY <2>2, <2>3
<1> HIDE DEF start
<1> QED
  BY <1>8, <1>9 DEF n

LEMMA EndChain ==
  ASSUME NEW c \in Jvms
  PROVE  \E start : Chain(Class!Written(c), EndAt(c), 1, start) /\ start[1] = Len(Class!Written(c))
<1> DEFINE w == Class!Written(c)
           b == EndAt(c)
           start == [i \in 0 .. 1 |-> IF i = 0 THEN b + 1 ELSE b + 4]
<1>1. w \in Seq(Nat) /\ b \in Nat /\ Len(w) = b + 4 /\ w[b + 1] = 1 /\ w[b + 3] = 1
  BY WrittenIs
<1> HIDE DEF w, b
<1>2. start \in [0 .. 1 -> Nat] /\ start[0] = b + 1 /\ start[1] = b + 4
  BY <1>1
<1> HIDE DEF start
<1>3. (b + 1) + 2 = b + 3 /\ b + 3 <= Len(w) /\ b + 4 = (b + 1) + 2 + 1 /\ b + 4 <= Len(w)
  BY <1>1
<1>4. ASSUME NEW i \in 1 .. 1
      PROVE  start[i - 1] + 2 <= Len(w) /\ start[i] = start[i - 1] + 2 + w[start[i - 1] + 2]
  <2>1. i = 1 /\ i - 1 = 0
    OBVIOUS
  <2> QED
    BY <1>1, <1>2, <1>3, <2>1
<1>5. Chain(w, b, 1, start)
  BY <1>1, <1>2, <1>3, <1>4 DEF Chain
<1> QED
  BY <1>1, <1>2, <1>5 DEF w, b

-----------------------------------------------------------------------------
\* The constant pool.
Kinds   == STRING \cup {"class", "number", "empty"}
Texts   == STRING \cup {""}
Entries == [kind : Kinds, text : Texts, name : Nat]

LEMMA EntryHas ==
  ASSUME NEW kind \in Kinds, NEW text \in Texts, NEW name \in Nat
  PROVE  LET e == [kind |-> kind, text |-> text, name |-> name]
         IN  e \in Entries /\ e.kind = kind /\ e.text = text /\ e.name = name
BY DEF Entries

LEMMA StoredIs ==
  ASSUME NEW c \in Jvms
  PROVE  /\ Class!Stored(c) \in Seq(Entries) /\ Len(Class!Stored(c)) = Len(c.pool) /\ Len(c.pool) \in Nat
         /\ \A k \in 1 .. Len(c.pool) :
              LET e == Class!Stored(c)[k]
                  x == c.pool[k]
              IN  /\ e \in Entries /\ e.kind = x.kind
                  /\ IF x.kind = "class"
                     THEN Class!Named("utf8", x.text, c.pool) /\ e.name = Class!NumberOf("utf8", x.text, c.pool)
                     ELSE e.text = x.text
<1> DEFINE n == Len(c.pool)
           P == c.pool
           num(k) == Class!NumberOf("utf8", P[k].text, P)
           e(k) == IF P[k].kind = "class" THEN [kind |-> "class", text |-> "", name |-> num(k)]
                                          ELSE [kind |-> P[k].kind, text |-> P[k].text, name |-> 0]
           s == Class!Stored(c)
<1>1. P \in Seq(PoolTypes) /\ n \in Nat /\ DOMAIN P = 1 .. n
  <2>1. P \in Seq(PoolTypes)
    BY JvmIs
  <2> QED
    BY <2>1
<1>2. \A k \in 1 .. n : P[k].kind = "class" => Class!Named("utf8", P[k].text, P)
  BY <1>1 DEF Jvms, Class!Compiled
<1>3. s = [k \in 1 .. n |-> e(k)]
  BY <1>1 DEF Class!Stored
<1>4. ASSUME NEW k \in 1 .. n
      PROVE  /\ e(k) \in Entries /\ e(k).kind = P[k].kind
             /\ P[k].kind = "class" => e(k).name = num(k)
             /\ P[k].kind # "class" => e(k).text = P[k].text
  <2>1. P[k] \in PoolTypes
    BY <1>1, ElementOfSeq
  <2>2. P[k].kind \in STRING /\ P[k].text \in STRING
    BY <2>1 DEF PoolTypes
  <2>3. P[k].kind = "class" => num(k) \in Nat
    BY <1>1, <1>2, NumberNamed
  <2> HIDE DEF P, num
  <2>4. CASE P[k].kind = "class"
    <3>1. e(k) = [kind |-> "class", text |-> "", name |-> num(k)]
      BY <2>4
    <3>2. "class" \in Kinds /\ "" \in Texts /\ num(k) \in Nat
      BY <2>3, <2>4 DEF Kinds, Texts
    <3>3. e(k) \in Entries /\ e(k).kind = "class" /\ e(k).name = num(k)
      <4> DEFINE a == "class"
                 b == ""
                 x == num(k)
      <4>1. a \in Kinds /\ b \in Texts /\ x \in Nat /\ e(k) = [kind |-> a, text |-> b, name |-> x]
        BY <3>1, <3>2
      <4> HIDE DEF a, b, x, e
      <4>2. e(k) \in Entries /\ e(k).kind = a /\ e(k).name = x
        BY <4>1, EntryHas
      <4> QED
        BY <4>2 DEF a, x
    <3> QED
      BY <2>4, <3>3
  <2>5. CASE P[k].kind # "class"
    <3>1. e(k) = [kind |-> P[k].kind, text |-> P[k].text, name |-> 0]
      BY <2>5
    <3>2. P[k].kind \in Kinds /\ P[k].text \in Texts
      BY <2>2 DEF Kinds, Texts
    <3>3. e(k) \in Entries /\ e(k).kind = P[k].kind /\ e(k).text = P[k].text
      <4> HIDE DEF e
      <4> QED
        BY <3>1, <3>2, EntryHas
    <3> QED
      BY <2>5, <3>3
  <2> QED
    BY <2>4, <2>5
<1> HIDE DEF e, s, n, P, num
<1>5. s \in Seq(Entries) /\ Len(s) = n /\ \A k \in 1 .. n : s[k] = e(k)
  BY <1>1, <1>3, <1>4
<1>6. ASSUME NEW k \in 1 .. n
      PROVE  /\ s[k] \in Entries /\ s[k].kind = P[k].kind
             /\ IF P[k].kind = "class" THEN Class!Named("utf8", P[k].text, P) /\ s[k].name = num(k)
                                       ELSE s[k].text = P[k].text
  BY <1>2, <1>4, <1>5
<1> QED
  BY <1>1, <1>5, <1>6 DEF s, n, P, num

LEMMA PushedIs ==
  ASSUME NEW e \in Entries
  PROVE  /\ Class!Pushed(e) \in Seq(Entries) /\ Len(Class!Pushed(e)) = Class!SlotsOf(e)
         /\ Class!SlotsOf(e) \in {1, 2}
         /\ e.kind \in {"utf8", "class"} => Class!Pushed(e)[1] = e
         /\ (Class!Pushed(e)[1]).kind = "class" => e.kind = "class"
<1> DEFINE nr == [e EXCEPT !.kind = "number"]
           em == Class!Empty
<1>1. em \in Entries /\ em.kind = "empty"
  BY DEF Class!Empty, Entries, Kinds, Texts
<1>2. nr \in Entries /\ nr.kind = "number"
  BY DEF Entries, Kinds
<1>3. Class!SlotsOf(e) = IF e.kind = "wide" THEN 2 ELSE 1
  BY DEF Class!SlotsOf
<1>4. CASE e.kind = "wide"
  <2>1. Class!Pushed(e) = <<nr, em>>
    BY <1>4 DEF Class!Pushed
  <2> HIDE DEF nr, em
  <2> QED
    BY <1>1, <1>2, <1>3, <1>4, <2>1
<1>5. CASE e.kind = "other"
  <2>1. Class!Pushed(e) = <<em>>
    BY <1>5 DEF Class!Pushed
  <2> HIDE DEF nr, em
  <2> QED
    BY <1>1, <1>2, <1>3, <1>5, <2>1
<1>6. CASE e.kind # "wide" /\ e.kind # "other"
  <2>1. Class!Pushed(e) = <<e>>
    BY <1>6 DEF Class!Pushed
  <2> HIDE DEF nr, em
  <2> QED
    BY <1>3, <1>6, <2>1
<1> QED
  BY <1>4, <1>5, <1>6

\* The first k entries are read.
PoolRead(read, c, k) ==
  LET slot == Class!NumbersOf(c.pool) IN
  /\ read \in Seq(Entries) /\ Len(read) = slot[k + 1]
  /\ \A i \in 1 .. k : read[slot[i] + 1] = Class!Pushed(Class!Stored(c)[i])[1] /\ c.pool[i].kind # "unknown"

LEMMA SlotsAre ==
  ASSUME NEW c \in Jvms
  PROVE  LET n == Len(c.pool)
             slot == Class!NumbersOf(c.pool)
         IN  /\ n \in Nat /\ \A k \in 1 .. n + 1 : slot[k] \in Nat
             /\ slot[1] = 1 /\ \A k \in 1 .. n : slot[k + 1] = slot[k] + Class!SlotsOf(c.pool[k])
             /\ \A j, k \in 1 .. n + 1 : j < k => slot[j] < slot[k]
<1>1. c.pool \in Seq(PoolTypes)
  BY JvmIs
<1> QED
  BY <1>1, NumbersAscend

LEMMA EntryRead ==
  ASSUME NEW c \in Jvms, NEW k \in 0 .. Len(c.pool), k < Len(c.pool), NEW read, PoolRead(read, c, k),
         c.pool[k + 1].kind # "unknown"
  PROVE  PoolRead(read \o Class!Pushed(Class!Stored(c)[k + 1]), c, k + 1)
<1> DEFINE n == Len(c.pool)
           slot == Class!NumbersOf(c.pool)
           s == Class!Stored(c)
           e == s[k + 1]
           t == Class!Pushed(e)
           u == read \o t
<1>1. /\ n \in Nat /\ \A i \in 1 .. n + 1 : slot[i] \in Nat
      /\ \A i \in 1 .. n : slot[i + 1] = slot[i] + Class!SlotsOf(c.pool[i])
      /\ \A i, j \in 1 .. n + 1 : i < j => slot[i] < slot[j]
  BY SlotsAre
<1>2. k \in Nat /\ k + 1 \in 1 .. n /\ k + 1 \in 1 .. n + 1 /\ (k + 1) + 1 \in 1 .. n + 1
  BY <1>1
<1>3. /\ read \in Seq(Entries) /\ Len(read) = slot[k + 1]
      /\ \A i \in 1 .. k : read[slot[i] + 1] = Class!Pushed(s[i])[1] /\ c.pool[i].kind # "unknown"
  BY DEF PoolRead
<1>4. e \in Entries /\ e.kind = c.pool[k + 1].kind
  BY <1>2, StoredIs
<1>5. t \in Seq(Entries) /\ Len(t) = Class!SlotsOf(e) /\ Class!SlotsOf(e) \in {1, 2}
  BY <1>4, PushedIs
<1>6. Class!SlotsOf(e) = Class!SlotsOf(c.pool[k + 1])
  BY <1>4 DEF Class!SlotsOf
<1> HIDE DEF n, slot, s, e, t, u
<1>7. Join(Entries, u, read, t)
  BY <1>3, <1>5, Concatenated DEF u
<1>8. /\ u \in Seq(Entries) /\ Len(u) = Len(read) + Len(t)
      /\ \A i \in 1 .. Len(read) : u[i] = read[i]
      /\ \A i \in 1 .. Len(t) : u[Len(read) + i] = t[i]
  BY <1>7 DEF Join
<1>9. Len(u) = slot[(k + 1) + 1]
  BY <1>1, <1>2, <1>3, <1>5, <1>6, <1>8
<1>10. ASSUME NEW i \in 1 .. k + 1
       PROVE  u[slot[i] + 1] = Class!Pushed(s[i])[1] /\ c.pool[i].kind # "unknown"
  <2>1. CASE i \in 1 .. k
    <3>1. i \in 1 .. n + 1 /\ i < k + 1
      BY <1>1, <1>2, <2>1
    <3>2. slot[i] < slot[k + 1] /\ slot[i] \in Nat /\ slot[k + 1] \in Nat
      BY <1>1, <1>2, <3>1
    <3>3. slot[i] + 1 \in 1 .. Len(read)
      BY <1>3, <3>2
    <3> QED
      BY <1>3, <1>8, <2>1, <3>3
  <2>2. CASE i = k + 1
    <3>1. 1 \in 1 .. Len(t)
      BY <1>5
    <3>2. u[Len(read) + 1] = t[1]
      BY <1>8, <3>1
    <3> QED
      BY <1>3, <2>2, <3>2 DEF t, e
  <2> QED
    BY <1>2, <2>1, <2>2
<1> QED
  BY <1>8, <1>9, <1>10 DEF PoolRead, slot, s, u, t, e

AllRead(c) == PoolRead(out.pool, c, Len(c.pool))

HeldAt(c, k, kind, text) ==
  LET e == Class!Stored(c)[k]
  IN  /\ e \in Entries /\ e.kind = kind
      /\ kind = "class" => Class!Named("utf8", text, c.pool) /\ e.name = Class!NumberOf("utf8", text, c.pool)
      /\ kind # "class" => e.text = text
      /\ Class!Entry(Class!NumberOf(kind, text, c.pool)) = Class!Pushed(e)[1]

LEMMA NumberHeld ==
  ASSUME NEW c \in Jvms, AllRead(c), NEW kind, NEW text, Class!Named(kind, text, c.pool)
  PROVE  \E k \in 1 .. Len(c.pool) : HeldAt(c, k, kind, text)
<1> DEFINE n == Len(c.pool)
           slot == Class!NumbersOf(c.pool)
           x == Class!NumberOf(kind, text, c.pool)
<1>1. c.pool \in Seq(PoolTypes)
  BY JvmIs
<1>2. PICK k \in 1 .. n : c.pool[k].kind = kind /\ c.pool[k].text = text /\ x = slot[k]
  BY <1>1, NumberNamed
<1>3. /\ n \in Nat /\ \A i \in 1 .. n + 1 : slot[i] \in Nat
      /\ \A i, j \in 1 .. n + 1 : i < j => slot[i] < slot[j]
  BY SlotsAre
<1>4. /\ out.pool \in Seq(Entries) /\ Len(out.pool) = slot[n + 1]
      /\ out.pool[slot[k] + 1] = Class!Pushed(Class!Stored(c)[k])[1]
  BY <1>2 DEF AllRead, PoolRead
<1>5. slot[k] + 1 \in 1 .. Len(out.pool)
  <2>1. k \in 1 .. n + 1 /\ n + 1 \in 1 .. n + 1 /\ k < n + 1
    BY <1>2, <1>3
  <2>2. slot[k] \in Nat /\ slot[n + 1] \in Nat /\ slot[k] < slot[n + 1]
    BY <1>3, <2>1
  <2> QED
    BY <1>4, <2>2
<1>6. slot[k] + 1 \in DOMAIN out.pool
  BY <1>4, <1>5
<1>7. Class!Entry(x) = Class!Pushed(Class!Stored(c)[k])[1]
  BY <1>2, <1>4, <1>6 DEF Class!Entry, Class!Pool
<1> QED
  BY <1>2, <1>7, StoredIs DEF HeldAt

LEMMA NameHeld ==
  ASSUME NEW c \in Jvms, AllRead(c), NEW text, Class!Named("utf8", text, c.pool), NEW default
  PROVE  /\ Class!Entry(Class!NumberOf("utf8", text, c.pool)).kind = "utf8"
         /\ Class!Utf8(Class!NumberOf("utf8", text, c.pool), default) = text
<1> DEFINE x == Class!NumberOf("utf8", text, c.pool)
           u == "utf8"
<1>1. PICK e \in Entries : e.kind = "utf8" /\ e.text = text /\ Class!Entry(x) = Class!Pushed(e)[1]
  <2>1. u # "class"
    OBVIOUS
  <2> HIDE DEF u
  <2>2. \E e \in Entries : e.kind = u /\ e.text = text /\ Class!Entry(Class!NumberOf(u, text, c.pool)) = Class!Pushed(e)[1]
    <3>1. Class!Named(u, text, c.pool)
      BY DEF u
    <3> QED
      BY <2>1, <3>1, NumberHeld DEF HeldAt
  <2> QED
    BY <2>2 DEF u
<1>2. Class!Entry(x) = e
  BY <1>1, PushedIs
<1> QED
  BY <1>1, <1>2 DEF Class!Utf8

LEMMA ClassHeld ==
  ASSUME NEW c \in Jvms, AllRead(c), NEW kind, NEW text, Class!Named(kind, text, c.pool)
  PROVE  LET x == Class!NumberOf(kind, text, c.pool)
         IN  /\ Class!IsClass(x) => kind = "class"
             /\ kind = "class" => Class!IsClass(x) /\ Class!Utf8(Class!Entry(x).name, "") = text
<1> DEFINE x == Class!NumberOf(kind, text, c.pool)
           y == Class!NumberOf("utf8", text, c.pool)
<1>1. PICK e \in Entries :
        /\ e.kind = kind /\ Class!Entry(x) = Class!Pushed(e)[1]
        /\ kind = "class" => Class!Named("utf8", text, c.pool) /\ e.name = y
  <2>1. PICK k \in 1 .. Len(c.pool) : HeldAt(c, k, kind, text)
    BY NumberHeld
  <2> QED
    BY <2>1 DEF HeldAt
<1> HIDE DEF x, y
<1>2. CASE kind = "class"
  <2>1. Class!Entry(x) = e /\ Class!Named("utf8", text, c.pool) /\ e.name = y
    BY <1>1, <1>2, PushedIs
  <2>2. Class!Entry(y).kind = "utf8" /\ Class!Utf8(y, "") = text
    BY <2>1, NameHeld DEF y
  <2> QED
    BY <1>1, <1>2, <2>1, <2>2 DEF Class!IsClass, x
<1>3. CASE kind # "class"
  <2>1. (Class!Pushed(e)[1]).kind # "class"
    BY <1>1, <1>3, PushedIs
  <2>2. Class!Entry(x).kind # "class"
    BY <1>1, <2>1
  <2> QED
    BY <1>3, <2>2 DEF Class!IsClass, x
<1> QED
  BY <1>2, <1>3

LEMMA InterfacesAre ==
  ASSUME NEW c \in Jvms, input = Given(c), AllRead(c), FieldsAt(c) <= Held(c)
  PROVE  Class!Interfaces(Len(c.interfaces)) = c.interfaces
<1> DEFINE n == Len(c.interfaces)
           I == c.interfaces
           r == input.rest
           F(f) == [i \in 0 .. n |->
                      IF i = 0 THEN <<>>
                      ELSE IF Class!IsClass(r[4 + i])
                           THEN Append(f[i - 1], Class!Utf8(Class!Entry(r[4 + i]).name, ""))
                           ELSE f[i - 1]]
           f == CHOOSE g : g = F(g)
           first(i) == [k \in 1 .. i |-> I[k]]
           g == [i \in 0 .. n |-> first(i)]
<1>1. n \in Nat /\ I \in Seq(STRING) /\ DOMAIN I = 1 .. n
  BY JvmIs
<1>2. Class!Interfaces(n) = f[n]
  BY DEF Class!Interfaces, Class!Rest
<1>3. \A i \in 1 .. n : Class!Named("class", I[i], c.pool)
  BY <1>1 DEF Jvms, Class!Compiled
<1>4. ASSUME NEW i \in 1 .. n
      PROVE  Class!IsClass(r[4 + i]) /\ Class!Utf8(Class!Entry(r[4 + i]).name, "") = I[i]
  <2> DEFINE w == Class!Written(c)
             x == Class!NumberOf("class", I[i], c.pool)
  <2>1. w[4 + i] = x
    BY WrittenIs DEF HasHeader
  <2>2. /\ Held(c) \in Nat /\ \A k \in 1 .. Held(c) : r[k] = w[k]
    BY RestIs
  <2>3. 4 + i \in 1 .. Held(c)
    BY <1>1, <2>2 DEF FieldsAt
  <2>4. r[4 + i] = x
    BY <2>1, <2>2, <2>3
  <2> HIDE DEF w
  <2>5. Class!IsClass(x) /\ Class!Utf8(Class!Entry(x).name, "") = I[i]
    <3> DEFINE kind == "class"
    <3>1. Class!Named(kind, I[i], c.pool)
      BY <1>3
    <3> HIDE DEF kind, I
    <3>2. kind = "class"
      BY DEF kind
    <3>3. LET y == Class!NumberOf(kind, I[i], c.pool)
          IN  Class!IsClass(y) /\ Class!Utf8(Class!Entry(y).name, "") = I[i]
      BY <3>1, <3>2, ClassHeld
    <3> QED
      BY <3>3 DEF kind
  <2> QED
    BY <2>4, <2>5
<1> HIDE DEF I, r, n
<1>5. ASSUME NEW i \in 1 .. n PROVE Append(first(i - 1), I[i]) = first(i) /\ first(i) \in Seq(STRING)
  <2>1. i - 1 \in Nat /\ i \in Nat /\ (i - 1) + 1 = i /\ \A k \in 1 .. i : k \in 1 .. n
    BY <1>1
  <2>2. \A k \in 1 .. i : I[k] \in STRING
    BY <1>1, <2>1, ElementOfSeq
  <2>3. /\ first(i) \in Seq(STRING) /\ Len(first(i)) = i
        /\ \A k \in 1 .. i : first(i)[k] = I[k]
    BY <2>1, <2>2
  <2>4. /\ first(i - 1) \in Seq(STRING) /\ Len(first(i - 1)) = i - 1
        /\ \A k \in 1 .. i - 1 : first(i - 1)[k] = I[k]
    BY <2>1, <2>2
  <2> HIDE DEF first
  <2> DEFINE a == Append(first(i - 1), I[i])
  <2>5. /\ a \in Seq(STRING) /\ Len(a) = i
        /\ \A k \in 1 .. i : a[k] = I[k]
    BY <2>1, <2>2, <2>4
  <2> HIDE DEF a
  <2>6. a = first(i)
    <3>1. Len(a) = Len(first(i)) /\ \A k \in 1 .. Len(a) : a[k] = first(i)[k]
      BY <2>3, <2>5
    <3> QED
      BY <2>3, <2>5, <3>1, SeqEqual
  <2> QED
    BY <2>3, <2>6 DEF a
<1>6. first(0) = <<>>
  OBVIOUS
<1> HIDE DEF first
<1>7. g = F(g)
  <2>1. \A i \in 1 .. n : i - 1 \in 0 .. n /\ g[i - 1] = first(i - 1)
    BY <1>1
  <2>2. \A i \in 0 .. n : i # 0 => i \in 1 .. n
    BY <1>1
  <2>3. \A i \in 0 .. n : first(i) = IF i = 0 THEN <<>>
                      ELSE IF Class!IsClass(r[4 + i])
                           THEN Append(g[i - 1], Class!Utf8(Class!Entry(r[4 + i]).name, ""))
                           ELSE g[i - 1]
    <3> HIDE DEF g
    <3> QED
      BY <1>4, <1>5, <1>6, <2>1, <2>2
  <2> QED
    BY <2>3
<1>8. f = F(f)
  BY <1>7
<1> HIDE DEF f, g
<1>9. \A i \in 0 .. n : f[i] = IF i = 0 THEN <<>>
                      ELSE IF Class!IsClass(r[4 + i])
                           THEN Append(f[i - 1], Class!Utf8(Class!Entry(r[4 + i]).name, ""))
                           ELSE f[i - 1]
  BY <1>8
<1> HIDE DEF F
<1> DEFINE Good(i) == i \in 0 .. n => f[i] = first(i)
           T == {i \in Nat : Good(i)}
<1>10. ASSUME NEW i \in Nat, Good(i) PROVE Good(i + 1)
  <2> SUFFICES ASSUME i + 1 \in 0 .. n PROVE f[i + 1] = first(i + 1)
    OBVIOUS
  <2> DEFINE k == i + 1
  <2>1. k \in 1 .. n /\ k - 1 = i /\ i \in 0 .. n /\ k \in 0 .. n /\ k # 0
    BY <1>1
  <2> HIDE DEF k
  <2>2. f[k] = Append(f[i], I[k])
    BY <1>4, <1>9, <2>1
  <2>3. Append(first(i), I[k]) = first(k) /\ f[i] = first(i)
    BY <1>5, <1>10, <2>1
  <2> QED
    BY <2>2, <2>3 DEF k
<1>11. Good(n)
  <2>1. Good(0)
    BY <1>6, <1>9
  <2> HIDE DEF Good
  <2>2. T \in SUBSET Nat /\ 0 \in T /\ \A i \in T : i + 1 \in T
    BY <1>10, <2>1
  <2> HIDE DEF T
  <2>3. n \in T
    BY <1>1, <2>2, Induction
  <2> QED
    BY <2>3 DEF T
<1>12. f[n] = first(n)
  BY <1>1, <1>11
<1> HIDE DEF Good, T
<1>13. first(n) = I
  BY <1>1 DEF first
<1> QED
  BY <1>2, <1>12, <1>13 DEF n, I

-----------------------------------------------------------------------------
\* How much of the class lies before a member or an attribute.
FieldStart(c, i)  == FieldsAt(c) + 1 + MembersAt(c.fields, c.pool)[i]
MethodStart(c, i) == MethodsAt(c) + 1 + MembersAt(c.methods, c.pool)[i]
AttributeStart(c, i, j) == MethodStart(c, i) + 4 + AttributesAt(c.methods[i], c.pool)[j]

\* Members one after another, behind off and their number, in the text w.
Stand(w, off, ms, pool, start) ==
  /\ Len(ms) \in Nat /\ w[off + 1] = Len(ms) /\ off + 1 <= Len(w)
  /\ start \in [1 .. Len(ms) + 1 -> Nat]
  /\ start[1] = off + 1 /\ start[Len(ms) + 1] = off + MembersSize(ms, pool)
  /\ \A i \in 1 .. Len(ms) : /\ start[i + 1] = start[i] + MemberSize(ms[i], pool)
                             /\ HasMember(w, start[i], ms[i], pool) /\ GoodMember(ms[i], pool)

LEMMA MembersStand ==
  ASSUME NEW pool \in Seq(PoolTypes), NEW ms, GoodMembers(ms, pool), NEW w \in Seq(Nat), NEW off \in Nat,
         HasMembers(w, off, ms, pool)
  PROVE  Stand(w, off, ms, pool, [i \in 1 .. Len(ms) + 1 |-> off + 1 + MembersAt(ms, pool)[i]])
<1> DEFINE n == Len(ms)
           at == MembersAt(ms, pool)
           size(i) == MemberSize(ms[i], pool)
           start == [i \in 1 .. n + 1 |-> off + 1 + at[i]]
<1>1. /\ n \in Nat /\ at \in [1 .. n + 1 -> Nat] /\ at[1] = 0 /\ DOMAIN ms = 1 .. n
      /\ \A i \in 1 .. n : at[i + 1] = at[i] + size(i)
  BY MembersAre
<1>2. /\ off + MembersSize(ms, pool) <= Len(w) /\ w[off + 1] = n
      /\ \A i \in 1 .. n : HasMember(w, off + 1 + at[i], ms[i], pool)
  BY DEF HasMembers
<1>3. MembersSize(ms, pool) = 1 + at[n + 1]
  BY DEF MembersSize
<1>4. \A i \in 1 .. n : GoodMember(ms[i], pool)
  BY <1>1 DEF GoodMembers
<1>5. ASSUME NEW i \in 1 .. n PROVE size(i) \in Nat
  <2> DEFINE m == ms[i]
             k == Len(m.attributes)
             inner == AttributesAt(m, pool)
  <2>1. k \in Nat /\ inner \in [1 .. k + 1 -> Nat]
    BY <1>4, MemberIs
  <2>2. size(i) = 4 + inner[k + 1]
    BY DEF MemberSize
  <2> HIDE DEF k, inner, size, m
  <2>3. inner[k + 1] \in Nat
    BY <2>1
  <2> QED
    BY <2>2, <2>3
<1> HIDE DEF n, at, size
<1>6. \A i \in 1 .. n + 1 : start[i] = off + 1 + at[i] /\ at[i] \in Nat
  BY <1>1
<1>7. start \in [1 .. n + 1 -> Nat] /\ 1 \in 1 .. n + 1 /\ n + 1 \in 1 .. n + 1
  <2>1. \A i \in 1 .. n + 1 : off + 1 + at[i] \in Nat
    BY <1>6
  <2> QED
    BY <1>1, <2>1
<1> HIDE DEF start
<1>8. start[1] = off + 1 /\ start[n + 1] = off + MembersSize(ms, pool)
  <2>1. at[n + 1] \in Nat
    BY <1>6, <1>7
  <2> DEFINE x == at[n + 1]
  <2>2. off + (1 + x) = off + 1 + x
    <3> HIDE DEF x
    <3>1. x \in Nat => off + (1 + x) = off + 1 + x
      OBVIOUS
    <3> QED
      BY <2>1, <3>1 DEF x
  <2> QED
    BY <1>1, <1>3, <1>6, <1>7, <2>2
<1>9. ASSUME NEW i \in 1 .. n
      PROVE  start[i + 1] = start[i] + size(i) /\ HasMember(w, start[i], ms[i], pool)
  <2>1. i \in 1 .. n + 1 /\ i + 1 \in 1 .. n + 1
    BY <1>1
  <2>2. at[i] \in Nat /\ size(i) \in Nat /\ start[i] = off + 1 + at[i] /\ start[i + 1] = off + 1 + (at[i] + size(i))
    BY <1>1, <1>5, <1>6, <2>1
  <2>3. start[i + 1] = start[i] + size(i)
    BY <2>2
  <2> QED
    BY <1>2, <2>2, <2>3
<1>10. off + 1 <= Len(w)
  <2>1. at[n + 1] \in Nat /\ Len(w) \in Nat
    BY <1>6, <1>7
  <2> QED
    BY <1>2, <1>3, <2>1
<1>11. Stand(w, off, ms, pool, start)
  BY <1>1, <1>2, <1>4, <1>7, <1>8, <1>9, <1>10 DEF Stand, n, size
<1> QED
  BY <1>11 DEF start, n, at

LEMMA FieldsStand ==
  ASSUME NEW c \in Jvms
  PROVE  LET w == Class!Written(c)
             n == Len(c.fields)
         IN  /\ n \in Nat /\ w[FieldsAt(c) + 1] = n /\ FieldsAt(c) + 1 <= Len(w) /\ FieldsAt(c) \in Nat
             /\ \A i \in 1 .. n + 1 : FieldStart(c, i) \in Nat
             /\ FieldStart(c, 1) = FieldsAt(c) + 1 /\ FieldStart(c, n + 1) = MethodsAt(c)
             /\ \A i \in 1 .. n : /\ FieldStart(c, i + 1) = FieldStart(c, i) + MemberSize(c.fields[i], c.pool)
                                  /\ HasMember(w, FieldStart(c, i), c.fields[i], c.pool)
                                  /\ GoodMember(c.fields[i], c.pool)
<1> DEFINE w == Class!Written(c)
           n == Len(c.fields)
           start == [i \in 1 .. n + 1 |-> FieldStart(c, i)]
<1>1. w \in Seq(Nat) /\ FieldsAt(c) \in Nat /\ HasMembers(w, FieldsAt(c), c.fields, c.pool)
  BY WrittenIs
<1>2. c.pool \in Seq(PoolTypes) /\ GoodMembers(c.fields, c.pool)
  BY JvmIs
<1> HIDE DEF w
<1>3. Stand(w, FieldsAt(c), c.fields, c.pool, start)
  BY <1>1, <1>2, MembersStand DEF FieldStart
<1>4. MethodsAt(c) = FieldsAt(c) + MembersSize(c.fields, c.pool)
  BY DEF MethodsAt
<1> HIDE DEF n
<1>5. n \in Nat
  BY <1>3 DEF Stand, n
<1>6. \A i \in 1 .. n + 1 : start[i] = FieldStart(c, i)
  OBVIOUS
<1>7. 1 \in 1 .. n + 1 /\ n + 1 \in 1 .. n + 1 /\ \A i \in 1 .. n : i \in 1 .. n + 1 /\ i + 1 \in 1 .. n + 1
  BY <1>5
<1> HIDE DEF start
<1> QED
  BY <1>1, <1>3, <1>4, <1>5, <1>6, <1>7 DEF Stand, n, w

LEMMA MethodsStand ==
  ASSUME NEW c \in Jvms
  PROVE  LET w == Class!Written(c)
             n == Len(c.methods)
         IN  /\ n \in Nat /\ w[MethodsAt(c) + 1] = n /\ MethodsAt(c) + 1 <= Len(w) /\ MethodsAt(c) \in Nat
             /\ \A i \in 1 .. n + 1 : MethodStart(c, i) \in Nat
             /\ MethodStart(c, 1) = MethodsAt(c) + 1 /\ MethodStart(c, n + 1) = EndAt(c)
             /\ \A i \in 1 .. n : /\ MethodStart(c, i + 1) = MethodStart(c, i) + MemberSize(c.methods[i], c.pool)
                                  /\ HasMember(w, MethodStart(c, i), c.methods[i], c.pool)
                                  /\ GoodMember(c.methods[i], c.pool)
<1> DEFINE w == Class!Written(c)
           n == Len(c.methods)
           start == [i \in 1 .. n + 1 |-> MethodStart(c, i)]
<1>1. w \in Seq(Nat) /\ MethodsAt(c) \in Nat /\ HasMembers(w, MethodsAt(c), c.methods, c.pool)
  BY WrittenIs
<1>2. c.pool \in Seq(PoolTypes) /\ GoodMembers(c.methods, c.pool)
  BY JvmIs
<1> HIDE DEF w
<1>3. Stand(w, MethodsAt(c), c.methods, c.pool, start)
  BY <1>1, <1>2, MembersStand DEF MethodStart
<1>4. EndAt(c) = MethodsAt(c) + MembersSize(c.methods, c.pool)
  BY DEF EndAt
<1> HIDE DEF n
<1>5. n \in Nat
  BY <1>3 DEF Stand, n
<1>6. \A i \in 1 .. n + 1 : start[i] = MethodStart(c, i)
  OBVIOUS
<1>7. 1 \in 1 .. n + 1 /\ n + 1 \in 1 .. n + 1 /\ \A i \in 1 .. n : i \in 1 .. n + 1 /\ i + 1 \in 1 .. n + 1
  BY <1>5
<1> HIDE DEF start
<1> QED
  BY <1>1, <1>3, <1>4, <1>5, <1>6, <1>7 DEF Stand, n, w

LEMMA AttributesStand ==
  ASSUME NEW c \in Jvms, NEW i \in 1 .. Len(c.methods)
  PROVE  LET w == Class!Written(c)
             as == c.methods[i].attributes
             n == Len(as)
         IN  /\ n \in Nat /\ w[MethodStart(c, i) + 4] = n /\ MethodStart(c, i) + 4 <= Len(w)
             /\ \A j \in 1 .. n + 1 : AttributeStart(c, i, j) \in Nat
             /\ AttributeStart(c, i, 1) = MethodStart(c, i) + 4
             /\ AttributeStart(c, i, n + 1) = MethodStart(c, i + 1)
             /\ \A j \in 1 .. n : /\ AttributeStart(c, i, j + 1) = AttributeStart(c, i, j) + 2 + Len(Inside(as[j]))
                                  /\ HasAttribute(w, AttributeStart(c, i, j), as[j], c.pool)
                                  /\ GoodAttribute(as[j], c.pool)
<1> DEFINE w == Class!Written(c)
           m == c.methods[i]
           as == m.attributes
           n == Len(as)
           at == AttributesAt(m, c.pool)
           b == MethodStart(c, i)
           size(j) == Len(Inside(as[j]))
<1>1. /\ HasMember(w, b, m, c.pool) /\ GoodMember(m, c.pool) /\ b \in Nat
      /\ MethodStart(c, i + 1) = b + MemberSize(m, c.pool)
  <2>1. Len(c.methods) \in Nat
    BY MethodsStand
  <2>2. i \in 1 .. Len(c.methods) + 1
    BY <2>1
  <2> QED
    BY <2>2, MethodsStand
<1>2. c.pool \in Seq(PoolTypes) /\ w \in Seq(Nat)
  BY JvmIs, WrittenIs
<1>3. /\ n \in Nat /\ at \in [1 .. n + 1 -> Nat] /\ at[1] = 0 /\ DOMAIN as = 1 .. n
      /\ \A j \in 1 .. n : at[j + 1] = at[j] + 2 + size(j)
  BY <1>1, <1>2, MemberIs
<1>4. /\ b + MemberSize(m, c.pool) <= Len(w) /\ w[b + 4] = n
      /\ \A j \in 1 .. n : HasAttribute(w, b + 4 + at[j], as[j], c.pool)
  BY <1>1 DEF HasMember
<1>5. \A j \in 1 .. n : GoodAttribute(as[j], c.pool)
  BY <1>1, <1>3 DEF GoodMember
<1>6. MemberSize(m, c.pool) = 4 + at[n + 1]
  BY DEF MemberSize
<1>7. \A j : AttributeStart(c, i, j) = b + 4 + at[j]
  BY DEF AttributeStart
<1>8. \A j \in 1 .. n : size(j) \in Nat
  BY <1>2, <1>5, InsideIs
<1> HIDE DEF w, m, as, n, at, b, size
<1>9. \A j \in 1 .. n + 1 : at[j] \in Nat
  BY <1>3
<1>10. 1 \in 1 .. n + 1 /\ n + 1 \in 1 .. n + 1 /\ \A j \in 1 .. n : j \in 1 .. n + 1 /\ j + 1 \in 1 .. n + 1
  BY <1>3
<1>11. \A j \in 1 .. n + 1 : AttributeStart(c, i, j) \in Nat
  BY <1>1, <1>7, <1>9
<1>12. AttributeStart(c, i, 1) = b + 4
  <2>1. AttributeStart(c, i, 1) = b + 4 + at[1] /\ b + 4 + 0 = b + 4
    BY <1>1, <1>7
  <2> QED
    BY <1>3, <2>1
<1>13. AttributeStart(c, i, n + 1) = MethodStart(c, i + 1) /\ b + 4 <= Len(w)
  <2>1. at[n + 1] \in Nat /\ Len(w) \in Nat
    BY <1>2, <1>9, <1>10
  <2>2. b + (4 + at[n + 1]) = b + 4 + at[n + 1] /\ b + 4 <= b + (4 + at[n + 1])
    BY <1>1, <2>1
  <2>3. b + 4 <= Len(w)
    BY <1>1, <1>4, <1>6, <2>1
  <2> QED
    BY <1>1, <1>6, <1>7, <2>2, <2>3
<1>14. ASSUME NEW j \in 1 .. n
       PROVE  AttributeStart(c, i, j + 1) = AttributeStart(c, i, j) + 2 + size(j)
  <2>1. at[j] \in Nat /\ size(j) \in Nat /\ at[j + 1] = at[j] + 2 + size(j)
    BY <1>3, <1>8, <1>9, <1>10
  <2>2. b + 4 + (at[j] + 2 + size(j)) = (b + 4 + at[j]) + 2 + size(j)
    BY <1>1, <2>1
  <2> QED
    BY <1>7, <2>1, <2>2
<1>15. \A j \in 1 .. n : HasAttribute(w, AttributeStart(c, i, j), as[j], c.pool)
  BY <1>4, <1>7
<1> QED
  BY <1>3, <1>4, <1>5, <1>11, <1>12, <1>13, <1>14, <1>15 DEF w, m, as, n, b, size

-----------------------------------------------------------------------------
\* The loops that are open.
LEMMA OneLoop ==
  ASSUME NEW loop, NEW k \in Nat, stack = <<[in |-> loop, left |-> k]>>
  PROVE  /\ Class!Top.in = loop /\ Class!Top.left = k
         /\ Class!Left = <<[in |-> loop, left |-> k - 1]>>
<1> DEFINE x == [in |-> loop, left |-> k]
           y == [in |-> loop, left |-> k - 1]
<1>1. x.in = loop /\ x.left = k /\ [x EXCEPT !.left = @ - 1] = y
  OBVIOUS
<1> HIDE DEF x, y
<1>2. stack = <<x>>
  BY DEF x
<1>3. Class!Top = x /\ Class!Front(stack) = <<>>
  BY <1>2 DEF Class!Top, Class!Last, Class!Front
<1>4. Class!Left = <<y>>
  BY <1>1, <1>3 DEF Class!Left
<1> QED
  BY <1>1, <1>3, <1>4 DEF y

LEMMA FirstOfTwo ==
  ASSUME NEW x, NEW y
  PROVE  SubSeq(<<x, y>>, 1, 1) = <<x>>
<1> DEFINE S == {x, y}
           s == <<x, y>>
           t == <<x>>
<1>1. x \in S /\ y \in S
  OBVIOUS
<1> HIDE DEF S
<1>2. s \in Seq(S) /\ Len(s) = 2 /\ s[1] = x /\ t \in Seq(S) /\ Len(t) = 1 /\ t[1] = x
  BY <1>1
<1> HIDE DEF s, t
<1>3. SubSeq(s, 1, 1) \in Seq(S) /\ Len(SubSeq(s, 1, 1)) = 1 /\ SubSeq(s, 1, 1)[1] = s[1]
  BY <1>2
<1>4. SubSeq(s, 1, 1) = t
  BY <1>2, <1>3, SeqEqual
<1> QED
  BY <1>4 DEF s, t

LEMMA TwoOfOne ==
  ASSUME NEW x, NEW z
  PROVE  Append(<<x>>, z) = <<x, z>>
<1> DEFINE S == {x, z}
           s == <<x>>
           t == <<x, z>>
           a == Append(s, z)
<1>1. x \in S /\ z \in S
  OBVIOUS
<1> HIDE DEF S
<1>2. s \in Seq(S) /\ Len(s) = 1 /\ s[1] = x /\ t \in Seq(S) /\ Len(t) = 2 /\ t[1] = x /\ t[2] = z
  BY <1>1
<1> HIDE DEF s, t
<1>3. a \in Seq(S) /\ Len(a) = 2 /\ a[1] = x /\ a[2] = z
  BY <1>1, <1>2
<1> HIDE DEF a
<1>4. \A i \in 1 .. 2 : i = 1 \/ i = 2
  OBVIOUS
<1>5. a = t
  BY <1>2, <1>3, <1>4, SeqEqual
<1> QED
  BY <1>5 DEF s, t, a

LEMMA TwoLoops ==
  ASSUME NEW x, NEW loop, NEW k \in Nat, stack = <<x, [in |-> loop, left |-> k]>>
  PROVE  /\ Class!Top.in = loop /\ Class!Top.left = k /\ Class!Front(stack) = <<x>>
         /\ Class!Left = <<x, [in |-> loop, left |-> k - 1]>>
<1> DEFINE y == [in |-> loop, left |-> k]
           z == [in |-> loop, left |-> k - 1]
<1>1. y.in = loop /\ y.left = k /\ [y EXCEPT !.left = @ - 1] = z
  OBVIOUS
<1> HIDE DEF y, z
<1>2. stack = <<x, y>>
  BY DEF y
<1>3. Class!Top = y /\ Class!Front(stack) = <<x>>
  <2> DEFINE s == <<x, y>>
             f == SubSeq(s, 1, 1)
  <2>1. Len(s) = 2 /\ s[2] = y /\ 2 - 1 = 1 /\ stack = s
    BY <1>2
  <2>2. f = <<x>>
    BY FirstOfTwo
  <2> HIDE DEF s, f
  <2>3. Class!Last(stack) = y /\ Class!Front(stack) = f
    BY <2>1 DEF Class!Last, Class!Front, f
  <2> QED
    BY <2>2, <2>3 DEF Class!Top
<1>4. Class!Left = <<x, z>>
  <2>1. Append(<<x>>, z) = <<x, z>>
    BY TwoOfOne
  <2>2. Class!Left = Append(Class!Front(stack), [Class!Top EXCEPT !.left = @ - 1])
    BY DEF Class!Left
  <2> QED
    BY <1>1, <1>3, <2>1, <2>2
<1> QED
  BY <1>1, <1>3, <1>4 DEF z

\* What is read when the pool, the members or the class are reached.
IsOut == out = [pool |-> out.pool, interfaces |-> out.interfaces, fields |-> out.fields, methods |-> out.methods]

Refused(c) == status \notin {"pool", "members", "done"} /\ ~Class!Sound(c)

InPool(c) ==
  /\ status = "pool" /\ stack = <<>>
  /\ out.interfaces = <<>> /\ out.fields = <<>> /\ out.methods = <<>>
  /\ \E k \in 0 .. Len(c.pool) : pos = k + 1 /\ PoolRead(out.pool, c, k)

HeadRead(c) == AllRead(c) /\ c.torn = 0 /\ c.this.kind = "class" /\ out.interfaces = c.interfaces

FieldsRead(c, n) ==
  out.fields \in Seq(STRING) /\ Len(out.fields) = n /\ \A x \in 1 .. n : out.fields[x] = c.fields[x].name

\* Of a method the first j attributes are read.
MethodSoFar(read, m, j) ==
  /\ read.name = m.name
  /\ \A k \in 1 .. j : ~m.attributes[k].short /\ (m.attributes[k].name = "Code" => read.code = m.attributes[k].code)
  /\ (\A k \in 1 .. j : m.attributes[k].name # "Code") => read.code = <<>>

\* Of n methods begun the first i are read.
MethodRecords == [name : STRING, code : Seq(Nat)]
MethodsRead(c, n, i) ==
  /\ out.methods \in Seq(MethodRecords) /\ Len(out.methods) = n
  /\ \A x \in 1 .. i : MethodSoFar(out.methods[x], c.methods[x], Len(c.methods[x].attributes))

\* At the i-th field, the i-th method or its j-th attribute, or behind the last.
AtField(c, i) ==
  /\ status = "members" /\ HeadRead(c) /\ FieldsRead(c, i - 1) /\ out.methods = <<>>
  /\ stack = <<[in |-> "fields", left |-> Len(c.fields) + 1 - i]>>
  /\ pos = FieldStart(c, i) + 1

AtMethod(c, i) ==
  /\ status = "members" /\ HeadRead(c) /\ FieldsRead(c, Len(c.fields)) /\ MethodsRead(c, i - 1, i - 1)
  /\ stack = <<[in |-> "methods", left |-> Len(c.methods) + 1 - i]>>
  /\ pos = MethodStart(c, i) + 1

AtAttribute(c, i, j) ==
  /\ status = "members" /\ HeadRead(c) /\ FieldsRead(c, Len(c.fields)) /\ MethodsRead(c, i, i - 1)
  /\ MethodSoFar(out.methods[i], c.methods[i], j - 1)
  /\ stack = <<[in |-> "methods", left |-> Len(c.methods) - i],
               [in |-> "attributes", left |-> Len(c.methods[i].attributes) + 1 - j]>>
  /\ pos = AttributeStart(c, i, j) + 1

WholeClass(c) ==
  /\ status = "done" /\ c.cut = 0 /\ HeadRead(c) /\ FieldsRead(c, Len(c.fields))
  /\ MethodsRead(c, Len(c.methods), Len(c.methods))

LEMMA PoolGiven ==
  ASSUME NEW c \in Jvms, input = Given(c)
  PROVE  LET n == Len(c.pool)
             slot == Class!NumbersOf(c.pool)
         IN  /\ Len(input.pool) = Kept(c) /\ \A k \in 1 .. Kept(c) : input.pool[k] = Class!Stored(c)[k]
             /\ input.count = slot[n + 1] - c.torn /\ c.torn \in {0, 1}
             /\ c.torn = 1 => n >= 1 /\ slot[n + 1] = slot[n] + 2
<1> DEFINE n == Len(c.pool)
           slot == Class!NumbersOf(c.pool)
           s == Class!Stored(c)
<1>1. s \in Seq(Entries) /\ Len(s) = n /\ n \in Nat
  BY StoredIs
<1>2. Kept(c) \in 0 .. n
  BY RestIs
<1>3. input.pool = SubSeq(s, 1, Kept(c)) /\ input.count = slot[n + 1] - c.torn
  BY DEF Given
<1>4. c.torn \in {0, 1} /\ (c.torn = 1 => c.pool[n].kind = "wide")
  BY DEF Jvms, Class!Compiled
<1>5. n >= 1
  <2>1. \E k \in DOMAIN c.pool : TRUE
    BY DEF Jvms, Class!Compiled, Class!Named
  <2>2. c.pool \in Seq(PoolTypes)
    BY JvmIs
  <2>3. DOMAIN c.pool = 1 .. n
    BY <2>2
  <2> QED
    BY <1>1, <2>1, <2>3
<1>6. c.torn = 1 => slot[n + 1] = slot[n] + 2
  <2>1. n \in 1 .. n
    BY <1>1, <1>5
  <2>2. slot[n + 1] = slot[n] + Class!SlotsOf(c.pool[n])
    BY <2>1, SlotsAre
  <2> QED
    BY <1>4, <2>2 DEF Class!SlotsOf
<1> HIDE DEF s, n
<1>7. Len(input.pool) = Kept(c) /\ \A k \in 1 .. Kept(c) : input.pool[k] = s[k]
  BY <1>1, <1>2, <1>3
<1> QED
  BY <1>3, <1>4, <1>5, <1>6, <1>7 DEF s, n

\* The header follows when every entry is read, and only of a count that is not torn.
LEMMA PoolWhole ==
  ASSUME NEW c \in Jvms, input = Given(c), NEW k \in 0 .. Len(c.pool), PoolRead(out.pool, c, k)
  PROVE  /\ k \in Nat /\ Len(c.pool) \in Nat
         /\ Len(out.pool) = input.count => AllRead(c) /\ c.torn = 0
         /\ Len(out.pool) > input.count => c.torn # 0
         /\ k = Len(c.pool) => ~(Len(out.pool) < input.count)
<1> DEFINE n == Len(c.pool)
           slot == Class!NumbersOf(c.pool)
<1>1. /\ n \in Nat /\ \A i \in 1 .. n + 1 : slot[i] \in Nat
      /\ \A i, j \in 1 .. n + 1 : i < j => slot[i] < slot[j]
  BY SlotsAre
<1>2. /\ input.count = slot[n + 1] - c.torn /\ c.torn \in {0, 1}
      /\ c.torn = 1 => n >= 1 /\ slot[n + 1] = slot[n] + 2
  BY PoolGiven
<1>3. Len(out.pool) = slot[k + 1]
  BY DEF PoolRead
<1> HIDE DEF n, slot
<1>4. n \in Nat /\ k \in Nat /\ k <= n /\ k + 1 \in 1 .. n + 1 /\ n + 1 \in 1 .. n + 1
  BY <1>1 DEF n
<1> DEFINE a == slot[k + 1]
           b == slot[n + 1]
<1>5. a \in Nat /\ b \in Nat /\ (k < n => a < b) /\ (k = n => a = b)
  BY <1>1, <1>4
<1>6. c.torn = 1 /\ k < n => a + 2 <= b
  <2> SUFFICES ASSUME c.torn = 1, k < n PROVE a + 2 <= b
    OBVIOUS
  <2>1. n \in 1 .. n + 1 /\ k + 1 <= n
    BY <1>1, <1>2, <1>4
  <2>2. slot[n] \in Nat /\ (k + 1 < n => a < slot[n]) /\ (k + 1 = n => a = slot[n])
    BY <1>1, <1>4, <2>1
  <2> DEFINE d == slot[n]
  <2>3. b = d + 2 /\ d \in Nat
    BY <1>2, <2>2
  <2> HIDE DEF a, b, d
  <2>4. a <= d
    BY <1>4, <1>5, <2>1, <2>2 DEF d
  <2> QED
    BY <1>5, <2>3, <2>4
<1> HIDE DEF a, b
<1>7. Len(out.pool) = a /\ input.count = b - c.torn
  BY <1>2, <1>3 DEF a, b
<1>8. Len(out.pool) = input.count => k = n /\ c.torn = 0
  <2>1. CASE c.torn = 0
    <3>1. b - c.torn = b
      BY <1>5, <2>1
    <3> QED
      BY <1>4, <1>5, <1>7, <2>1, <3>1
  <2>2. CASE c.torn = 1
    <3>1. b - c.torn = b - 1
      BY <2>2
    <3>2. a # b - 1
      BY <1>4, <1>5, <1>6, <2>2
    <3> QED
      BY <1>7, <3>1, <3>2
  <2> QED
    BY <1>2, <2>1, <2>2
<1>9. k = n => (PoolRead(out.pool, c, k) <=> AllRead(c))
  BY DEF AllRead, n
<1>10. Len(out.pool) > input.count => c.torn # 0
  <2> SUFFICES ASSUME c.torn = 0 PROVE ~(Len(out.pool) > input.count)
    OBVIOUS
  <2>1. b - c.torn = b
    BY <1>5
  <2> QED
    BY <1>4, <1>5, <1>7, <2>1
<1>11. k = n => ~(Len(out.pool) < input.count)
  <2> SUFFICES ASSUME k = n PROVE ~(a < b - c.torn)
    BY <1>7
  <2>1. a = b /\ b - c.torn <= b
    BY <1>2, <1>5
  <2> QED
    BY <1>2, <1>5, <2>1
<1> QED
  BY <1>1, <1>4, <1>8, <1>9, <1>10, <1>11 DEF n

LEMMA JvmFails ==
  ASSUME NEW c \in Jvms, IsOut, NEW error, error \notin {"pool", "members", "done"}, Class!Fail(error),
         ~Class!Sound(c)
  PROVE  IsOut' /\ Refused(c)' /\ input' = input
BY DEF Class!Fail, IsOut, Refused, Class!Sound

LEMMA EntryReads ==
  ASSUME NEW c \in Jvms, input = Given(c), IsOut, InPool(c), Class!ReadEntry
  PROVE  InPool(c)' /\ IsOut' /\ input' = input
<1>1. PICK k \in 0 .. Len(c.pool) : pos = k + 1 /\ PoolRead(out.pool, c, k)
  BY DEF InPool
<1> DEFINE n == Len(c.pool)
           s == Class!Stored(c)
           p == out.pool \o Class!Pushed(s[k + 1])
<1>2. n \in Nat /\ k \in Nat /\ Kept(c) \in 0 .. n
  BY RestIs, PoolWhole, <1>1
<1>3. /\ pos <= Len(input.pool) /\ input.pool[pos].kind # "unknown" /\ pos' = pos + 1
      /\ out' = [out EXCEPT !.pool = @ \o Class!Pushed(input.pool[pos])]
      /\ input' = input /\ stack' = stack /\ status' = status
  BY DEF Class!ReadEntry, Class!Pool
<1>4. k + 1 \in 1 .. Kept(c) /\ k + 1 \in 1 .. n /\ k < n
  <2>1. Len(input.pool) = Kept(c)
    BY PoolGiven
  <2> HIDE DEF n
  <2> QED
    BY <1>1, <1>2, <1>3, <2>1
<1>5. input.pool[pos] = s[k + 1]
  BY <1>1, <1>4, PoolGiven
<1>6. c.pool[k + 1].kind # "unknown"
  <2>1. s[k + 1].kind = c.pool[k + 1].kind
    BY <1>4, StoredIs
  <2> QED
    BY <1>3, <1>5, <2>1
<1>7. PoolRead(p, c, k + 1)
  BY <1>1, <1>4, <1>6, EntryRead
<1>8. out' = [out EXCEPT !.pool = p]
  BY <1>3, <1>5
<1> HIDE DEF p, s
<1>9. /\ out'.pool = p /\ out'.interfaces = out.interfaces /\ out'.fields = out.fields
      /\ out'.methods = out.methods /\ IsOut'
  BY <1>8 DEF IsOut
<1>10. k + 1 \in 0 .. n /\ pos' = (k + 1) + 1
  BY <1>1, <1>2, <1>3, <1>4
<1>11. PoolRead(out'.pool, c, k + 1)
  BY <1>7, <1>9
<1>12. \E i \in 0 .. Len(c.pool) : pos' = i + 1 /\ PoolRead(out'.pool, c, i)
  BY <1>10, <1>11
<1> QED
  BY <1>3, <1>9, <1>12 DEF InPool

LEMMA TagFails ==
  ASSUME NEW c \in Jvms, input = Given(c), IsOut, InPool(c), Class!UnknownTag
  PROVE  IsOut' /\ Refused(c)' /\ input' = input
<1>1. PICK k \in 0 .. Len(c.pool) : pos = k + 1 /\ PoolRead(out.pool, c, k)
  BY DEF InPool
<1>2. Len(c.pool) \in Nat /\ k \in Nat /\ Kept(c) \in 0 .. Len(c.pool)
  BY RestIs, PoolWhole, <1>1
<1>3. pos <= Len(input.pool) /\ input.pool[pos].kind = "unknown" /\ Class!Fail("tag")
  BY DEF Class!UnknownTag
<1>4. Len(input.pool) = Kept(c) /\ \A i \in 1 .. Kept(c) : input.pool[i] = Class!Stored(c)[i]
  BY PoolGiven
<1>5. k + 1 \in 1 .. Kept(c) /\ k + 1 \in 1 .. Len(c.pool)
  BY <1>1, <1>2, <1>3, <1>4
<1>6. c.pool[k + 1].kind = "unknown"
  <2>1. Class!Stored(c)[k + 1].kind = c.pool[k + 1].kind
    BY <1>5, StoredIs
  <2> QED
    BY <1>1, <1>3, <1>4, <1>5, <2>1
<1>7. ~Class!Sound(c)
  <2>1. c.pool \in Seq(PoolTypes)
    BY JvmIs
  <2>2. k + 1 \in DOMAIN c.pool
    BY <1>5, <2>1
  <2> QED
    BY <1>6, <2>2 DEF Class!Sound
<1> DEFINE e == "tag"
<1>8. e \notin {"pool", "members", "done"}
  OBVIOUS
<1>9. Class!Fail(e)
  BY <1>3
<1> HIDE DEF e
<1> QED
  BY <1>7, <1>8, <1>9, JvmFails

LEMMA CountFails ==
  ASSUME NEW c \in Jvms, input = Given(c), IsOut, InPool(c), Class!PoolTooLong
  PROVE  IsOut' /\ Refused(c)' /\ input' = input
<1>1. PICK k \in 0 .. Len(c.pool) : pos = k + 1 /\ PoolRead(out.pool, c, k)
  BY DEF InPool
<1>2. Len(out.pool) > input.count /\ Class!Fail("count")
  BY DEF Class!PoolTooLong, Class!Pool
<1>3. c.torn # 0
  BY <1>1, <1>2, PoolWhole
<1>4. ~Class!Sound(c)
  BY <1>3 DEF Class!Sound
<1> DEFINE e == "count"
<1>5. e \notin {"pool", "members", "done"}
  OBVIOUS
<1>6. Class!Fail(e)
  BY <1>2
<1> HIDE DEF e
<1> QED
  BY <1>4, <1>5, <1>6, JvmFails

\* The number of the class stands second, that of its interfaces fourth.
LEMMA HeaderIs ==
  ASSUME NEW c \in Jvms, input = Given(c), AllRead(c)
  PROVE  LET w == Class!Written(c)
         IN  /\ FieldsAt(c) = 4 + Len(c.interfaces) /\ Len(c.interfaces) \in Nat
             /\ FieldsAt(c) + 1 <= Len(w) /\ Len(w) \in Nat /\ Held(c) \in Nat /\ Len(input.rest) = Held(c)
             /\ c.cut = 0 => Held(c) = Len(w)
             /\ \A i \in 1 .. Held(c) : input.rest[i] = w[i]
             /\ Held(c) >= 2 => /\ Class!IsClass(input.rest[2]) => c.this.kind = "class"
                                /\ c.this.kind = "class" => Class!IsClass(input.rest[2])
             /\ w[4] = Len(c.interfaces)
<1> DEFINE w == Class!Written(c)
           x == Class!NumberOf(c.this.kind, c.this.text, c.pool)
<1>1. Class!Named(c.this.kind, c.this.text, c.pool)
  BY DEF Jvms, Class!Compiled
<1>2. (Class!IsClass(x) => c.this.kind = "class") /\ (c.this.kind = "class" => Class!IsClass(x))
  <2> DEFINE kind == c.this.kind
             text == c.this.text
  <2>1. Class!Named(kind, text, c.pool) /\ x = Class!NumberOf(kind, text, c.pool)
    BY <1>1
  <2> HIDE DEF kind, text, x
  <2>2. (Class!IsClass(x) => kind = "class") /\ (kind = "class" => Class!IsClass(x))
    BY <2>1, ClassHeld
  <2> QED
    BY <2>2 DEF kind
<1>3. w[2] = x /\ w[4] = Len(c.interfaces)
  BY WrittenIs DEF HasHeader
<1>4. /\ Len(w) \in Nat /\ Held(c) \in Nat /\ Len(input.rest) = Held(c)
      /\ \A i \in 1 .. Held(c) : input.rest[i] = w[i]
      /\ c.cut = 0 => Held(c) = Len(w)
  BY RestIs
<1>5. Len(c.interfaces) \in Nat /\ FieldsAt(c) + 1 <= Len(w)
  BY JvmIs, FieldsStand
<1> HIDE DEF w, x
<1>6. Held(c) >= 2 => input.rest[2] = x
  BY <1>3, <1>4
<1> QED
  BY <1>2, <1>3, <1>4, <1>5, <1>6 DEF FieldsAt, w

LEMMA HeaderReads ==
  ASSUME NEW c \in Jvms, input = Given(c), IsOut, InPool(c), Class!ReadHeader
  PROVE  AtField(c, 1)' /\ IsOut' /\ input' = input
<1> DEFINE w == Class!Written(c)
           r == input.rest
           ni == Len(c.interfaces)
           nf == Len(c.fields)
<1>1. PICK k \in 0 .. Len(c.pool) : pos = k + 1 /\ PoolRead(out.pool, c, k)
  BY DEF InPool
<1>2. /\ Len(out.pool) = input.count
      /\ Class!Readable(4) /\ Class!Readable(5 + r[4]) /\ Class!IsClass(r[2])
      /\ out' = [out EXCEPT !.interfaces = Class!Interfaces(r[4])]
      /\ stack' = <<[in |-> "fields", left |-> r[5 + r[4]]]>>
      /\ pos' = (5 + r[4]) + 1 /\ status' = "members" /\ input' = input
  BY DEF Class!ReadHeader, Class!Pool, Class!Rest
<1>3. AllRead(c) /\ c.torn = 0
  BY <1>1, <1>2, PoolWhole
<1>4. /\ FieldsAt(c) = 4 + ni /\ ni \in Nat /\ Held(c) \in Nat /\ Len(r) = Held(c)
      /\ \A i \in 1 .. Held(c) : r[i] = w[i]
      /\ Held(c) >= 2 => /\ Class!IsClass(r[2]) => c.this.kind = "class"
                         /\ c.this.kind = "class" => Class!IsClass(r[2])
      /\ w[4] = ni
  BY <1>3, HeaderIs
<1>5. /\ nf \in Nat /\ w[FieldsAt(c) + 1] = nf /\ FieldStart(c, 1) = FieldsAt(c) + 1
  BY FieldsStand
<1> HIDE DEF w, ni, r, nf
<1>6. 4 <= Held(c) /\ r[4] = ni /\ 5 + ni <= Held(c)
  <2>1. 4 <= Held(c)
    BY <1>2, <1>4 DEF Class!Readable, Class!Rest, r
  <2>2. r[4] = ni
    BY <1>4, <2>1
  <2> QED
    BY <1>2, <1>4, <2>1, <2>2 DEF Class!Readable, Class!Rest, r
<1>7. c.this.kind = "class" /\ FieldsAt(c) <= Held(c)
  BY <1>2, <1>4, <1>6
<1>8. Class!Interfaces(ni) = c.interfaces
  BY <1>3, <1>7, InterfacesAre DEF ni
<1>9. r[5 + ni] = nf
  <2>1. 5 + ni \in 1 .. Held(c) /\ 5 + ni = FieldsAt(c) + 1
    BY <1>4, <1>6
  <2> QED
    BY <1>4, <1>5, <2>1
<1>10. /\ out' = [out EXCEPT !.interfaces = c.interfaces] /\ pos' = FieldStart(c, 1) + 1
       /\ stack' = <<[in |-> "fields", left |-> nf]>>
  BY <1>2, <1>4, <1>5, <1>6, <1>8, <1>9
<1>11. /\ out'.pool = out.pool /\ out'.interfaces = c.interfaces /\ out'.fields = <<>> /\ out'.methods = <<>>
       /\ IsOut'
  BY <1>10 DEF IsOut, InPool
<1>12. PoolRead(out'.pool, c, Len(c.pool))
  BY <1>3, <1>11 DEF AllRead
<1>13. HeadRead(c)'
  BY <1>3, <1>7, <1>11, <1>12 DEF HeadRead, AllRead
<1>14. FieldsRead(c, 1 - 1)'
  BY <1>11 DEF FieldsRead
<1>15. nf + 1 - 1 = nf
  BY <1>5
<1> QED
  BY <1>2, <1>10, <1>11, <1>13, <1>14, <1>15 DEF AtField, nf

LEMMA NameFails ==
  ASSUME NEW c \in Jvms, input = Given(c), IsOut, InPool(c), Class!NotAClass
  PROVE  IsOut' /\ Refused(c)' /\ input' = input
<1>1. PICK k \in 0 .. Len(c.pool) : pos = k + 1 /\ PoolRead(out.pool, c, k)
  BY DEF InPool
<1>2. Len(out.pool) = input.count /\ 3 <= Len(input.rest) /\ ~Class!IsClass(input.rest[2])
  BY DEF Class!NotAClass, Class!Pool, Class!Readable, Class!Rest
<1>3. AllRead(c)
  BY <1>1, <1>2, PoolWhole
<1>4. c.this.kind # "class"
  <2>1. /\ Held(c) \in Nat /\ Len(input.rest) = Held(c)
        /\ Held(c) >= 2 => /\ Class!IsClass(input.rest[2]) => c.this.kind = "class"
                           /\ c.this.kind = "class" => Class!IsClass(input.rest[2])
    BY <1>3, HeaderIs
  <2>2. Held(c) >= 2
    BY <1>2, <2>1
  <2> QED
    BY <1>2, <2>1, <2>2
<1>5. ~Class!Sound(c)
  BY <1>4 DEF Class!Sound
<1> DEFINE e == "class name"
<1>6. e \notin {"pool", "members", "done"}
  OBVIOUS
<1>7. Class!Fail(e)
  BY DEF Class!NotAClass
<1> HIDE DEF e
<1> QED
  BY <1>5, <1>6, <1>7, JvmFails

LEMMA PoolTruncated ==
  ASSUME NEW c \in Jvms, input = Given(c), IsOut, InPool(c), Class!Truncated
  PROVE  IsOut' /\ Refused(c)' /\ input' = input
<1>1. PICK k \in 0 .. Len(c.pool) : pos = k + 1 /\ PoolRead(out.pool, c, k)
  BY DEF InPool
<1>2. status = "pool"
  BY DEF InPool
<1>3. Class!Fail("end")
  BY DEF Class!Truncated
<1>4. /\ k \in Nat /\ Len(c.pool) \in Nat
      /\ Len(out.pool) = input.count => AllRead(c)
      /\ k = Len(c.pool) => ~(Len(out.pool) < input.count)
  BY <1>1, PoolWhole
<1>5. /\ Len(input.pool) = Kept(c) /\ Kept(c) \in 0 .. Len(c.pool) /\ (c.cut = 0 => Kept(c) = Len(c.pool))
  BY PoolGiven, RestIs
<1>6. ASSUME Len(out.pool) < input.count /\ pos > Len(input.pool) PROVE c.cut # 0
  <2>1. k # Len(c.pool)
    BY <1>4, <1>6
  <2>2. k + 1 > Kept(c) /\ k < Len(c.pool)
    BY <1>1, <1>4, <1>5, <1>6, <2>1
  <2>3. c.cut # 0
    BY <1>4, <1>5, <2>2
  <2> QED
    BY <2>3
<1>7. ASSUME Len(out.pool) = input.count /\
             \/ ~Class!Readable(3)
             \/ /\ Class!Readable(3) /\ Class!IsClass(input.rest[2])
                /\ Class!Readable(4) => ~Class!Readable(5 + input.rest[4])
      PROVE  c.cut # 0
  <2> SUFFICES ASSUME c.cut = 0 PROVE FALSE
    OBVIOUS
  <2>1. AllRead(c)
    BY <1>4, <1>7
  <2> DEFINE w == Class!Written(c)
             ni == Len(c.interfaces)
             r == input.rest
  <2>2. /\ ni \in Nat /\ (4 + ni) + 1 <= Len(w) /\ Len(w) \in Nat
        /\ Len(r) = Len(w) /\ \A i \in 1 .. Len(w) : r[i] = w[i]
        /\ w[4] = ni
    BY <2>1, HeaderIs
  <2>3. \A i : Class!Readable(i) <=> i <= Len(r)
    BY DEF Class!Readable, Class!Rest
  <2> HIDE DEF w, ni, r
  <2>4. 3 <= Len(r) /\ 4 <= Len(r) /\ 4 \in 1 .. Len(w)
    BY <2>2
  <2>5. r[4] = ni /\ 5 + ni <= Len(r)
    BY <2>2, <2>4
  <2> QED
    BY <1>7, <2>3, <2>4, <2>5 DEF r
<1>8. ~Class!Sound(c)
  <2>1. c.cut # 0
    BY <1>2, <1>6, <1>7 DEF Class!Truncated, Class!Pool, Class!Rest
  <2> QED
    BY <2>1 DEF Class!Sound
<1> DEFINE e == "end"
<1>9. e \notin {"pool", "members", "done"}
  OBVIOUS
<1>10. Class!Fail(e)
  BY <1>3
<1> HIDE DEF e
<1> QED
  BY <1>8, <1>9, <1>10, JvmFails

-----------------------------------------------------------------------------
\* The fields.
LEMMA FieldLoop ==
  ASSUME NEW c \in Jvms, NEW i \in 1 .. Len(c.fields) + 1, AtField(c, i)
  PROVE  /\ Class!Top.in = "fields" /\ Class!Top.left = Len(c.fields) + 1 - i
         /\ Class!Top.left \in Nat /\ Len(c.fields) \in Nat
         /\ Class!Left = <<[in |-> "fields", left |-> Len(c.fields) - i]>>
<1> DEFINE loop == "fields"
           k == Len(c.fields) + 1 - i
<1>1. Len(c.fields) \in Nat
  BY FieldsStand
<1>2. k \in Nat /\ k - 1 = Len(c.fields) - i
  BY <1>1
<1>3. stack = <<[in |-> loop, left |-> k]>>
  BY DEF AtField
<1> HIDE DEF loop, k
<1>4. /\ Class!Top.in = loop /\ Class!Top.left = k
      /\ Class!Left = <<[in |-> loop, left |-> k - 1]>>
  BY <1>2, <1>3, OneLoop
<1> QED
  BY <1>1, <1>2, <1>4 DEF loop, k

LEMMA FieldSkips ==
  ASSUME NEW c \in Jvms, input = Given(c), NEW i \in 1 .. Len(c.fields)
  PROVE  LET s == FieldStart(c, i)
             e == FieldStart(c, i + 1)
             w == Class!Written(c)
         IN  /\ s \in Nat /\ e \in Nat /\ s + 4 <= e /\ e <= Len(w)
             /\ w[s + 2] = Class!NumberOf("utf8", c.fields[i].name, c.pool)
             /\ Class!SkipAttributes(s + 4) = IF e <= Held(c) THEN e + 1 ELSE Held(c) + 2
             /\ Class!Named("utf8", c.fields[i].name, c.pool)
<1> DEFINE m == c.fields[i]
           n == Len(m.attributes)
           s == FieldStart(c, i)
           e == FieldStart(c, i + 1)
           w == Class!Written(c)
<1>1. Len(c.fields) \in Nat /\ i \in 1 .. Len(c.fields) + 1 /\ i + 1 \in 1 .. Len(c.fields) + 1
  BY FieldsStand
<1>2. /\ s \in Nat /\ e \in Nat /\ e = s + MemberSize(m, c.pool)
      /\ HasMember(w, s, m, c.pool) /\ GoodMember(m, c.pool)
  BY <1>1, FieldsStand
<1>3. c.pool \in Seq(PoolTypes) /\ w \in Seq(Nat)
  BY JvmIs, WrittenIs
<1>4. n \in Nat /\ DOMAIN m.attributes = 1 .. n
  BY <1>2, <1>3, MemberIs
<1>5. \A j \in 1 .. n : ~m.attributes[j].short
  <2>1. i \in DOMAIN c.fields
    <3>1. GoodMembers(c.fields, c.pool)
      BY JvmIs
    <3> QED
      BY <1>3, <3>1, MembersAre
  <2> QED
    BY <1>4, <2>1 DEF Jvms, Class!Compiled
<1> HIDE DEF s, e, w, m, n
<1>6. PICK start : Chain(w, s + 3, n, start) /\ start[n] = e
  BY <1>2, <1>3, <1>5, MemberChain DEF n
<1>7. /\ start[n] \in Nat /\ start[n] >= (s + 3) + 1
      /\ Class!SkipAttributes((s + 3) + 1) = IF start[n] <= Held(c) THEN start[n] + 1 ELSE Held(c) + 2
  <2>1. s + 3 \in Nat
    BY <1>2
  <2> QED
    BY <1>4, <1>6, <2>1, Skips DEF w
<1>8. (s + 3) + 1 = s + 4 /\ s + 4 <= e
  BY <1>2, <1>6, <1>7
<1>9. w[s + 2] = Class!NumberOf("utf8", m.name, c.pool) /\ e <= Len(w)
  BY <1>2 DEF HasMember
<1>10. Class!Named("utf8", m.name, c.pool)
  BY <1>2 DEF GoodMember
<1> QED
  BY <1>2, <1>6, <1>7, <1>8, <1>9, <1>10 DEF s, e, w, m

LEMMA FieldReads ==
  ASSUME NEW c \in Jvms, input = Given(c), IsOut, NEW i \in 1 .. Len(c.fields) + 1, AtField(c, i),
         Class!ReadField
  PROVE  i \in 1 .. Len(c.fields) /\ AtField(c, i + 1)' /\ IsOut' /\ input' = input
<1> DEFINE n == Len(c.fields)
           s == FieldStart(c, i)
           e == FieldStart(c, i + 1)
           w == Class!Written(c)
           r == input.rest
           name == c.fields[i].name
<1>1. /\ Class!Top.left > 0 /\ Class!SkipAttributes(pos + 3) # Class!Beyond
      /\ out' = [out EXCEPT !.fields = Append(@, Class!Utf8(r[pos + 1], "field"))]
      /\ pos' = Class!SkipAttributes(pos + 3) /\ stack' = Class!Left
      /\ input' = input /\ status' = status
  BY DEF Class!ReadField, Class!In, Class!Rest
<1>2. /\ Class!Top.left = n + 1 - i /\ n \in Nat
      /\ Class!Left = <<[in |-> "fields", left |-> n - i]>>
  BY FieldLoop
<1>3. i \in 1 .. n
  BY <1>1, <1>2
<1>4. pos = s + 1 /\ status = "members" /\ HeadRead(c) /\ FieldsRead(c, i - 1) /\ out.methods = <<>>
  BY DEF AtField
<1>5. /\ s \in Nat /\ e \in Nat /\ s + 4 <= e
      /\ w[s + 2] = Class!NumberOf("utf8", name, c.pool)
      /\ Class!SkipAttributes(s + 4) = IF e <= Held(c) THEN e + 1 ELSE Held(c) + 2
      /\ Class!Named("utf8", name, c.pool)
  BY <1>3, FieldSkips
<1>6. Held(c) \in Nat /\ Len(r) = Held(c) /\ \A k \in 1 .. Held(c) : r[k] = w[k]
  BY RestIs
<1>7. name \in STRING
  <2>1. c.fields \in Seq(Class!MemberTypes)
    BY JvmIs DEF GoodMembers
  <2>2. c.fields[i] \in Class!MemberTypes
    BY <1>3, <2>1, ElementOfSeq
  <2> QED
    BY <2>2 DEF Class!MemberTypes
<1> HIDE DEF n, s, e, w, r, name
<1>8. pos + 3 = s + 4 /\ pos + 1 = s + 2
  BY <1>4, <1>5
<1>9. Class!Beyond = Held(c) + 2
  BY <1>6 DEF Class!Beyond, Class!Rest, r
<1>10. e <= Held(c) /\ pos' = e + 1
  BY <1>1, <1>5, <1>8, <1>9
<1>11. Class!Utf8(r[pos + 1], "field") = name
  <2>1. s + 2 \in 1 .. Held(c)
    BY <1>5, <1>6, <1>10
  <2>2. r[pos + 1] = Class!NumberOf("utf8", name, c.pool)
    BY <1>5, <1>6, <1>8, <2>1
  <2>3. AllRead(c)
    BY <1>4 DEF HeadRead
  <2>4. \A d : Class!Utf8(Class!NumberOf("utf8", name, c.pool), d) = name
    BY <1>5, <2>3, NameHeld
  <2> QED
    BY <2>2, <2>4
<1> DEFINE f == Append(out.fields, name)
<1>12. out' = [out EXCEPT !.fields = f]
  BY <1>1, <1>11
<1>13. /\ out.fields \in Seq(STRING) /\ Len(out.fields) = i - 1
       /\ \A x \in 1 .. i - 1 : out.fields[x] = c.fields[x].name
  BY <1>4 DEF FieldsRead
<1>14. f \in Seq(STRING) /\ Len(f) = i /\ \A x \in 1 .. i : f[x] = c.fields[x].name
  <2>1. i - 1 \in Nat /\ (i - 1) + 1 = i
    BY <1>2, <1>3
  <2>2. f \in Seq(STRING) /\ Len(f) = i /\ f[i] = name /\ \A x \in 1 .. i - 1 : f[x] = out.fields[x]
    BY <1>7, <1>13, <2>1
  <2> HIDE DEF f
  <2>3. \A x \in 1 .. i : x = i \/ x \in 1 .. i - 1
    BY <1>2, <1>3
  <2> QED
    BY <1>13, <2>2, <2>3 DEF name
<1> HIDE DEF f
<1>15. /\ out'.pool = out.pool /\ out'.interfaces = out.interfaces /\ out'.fields = f /\ out'.methods = out.methods
       /\ IsOut'
  BY <1>12 DEF IsOut
<1>16. HeadRead(c)'
  BY <1>4, <1>15 DEF HeadRead, AllRead
<1>17. FieldsRead(c, (i + 1) - 1)'
  <2>1. (i + 1) - 1 = i
    BY <1>2, <1>3
  <2> QED
    BY <1>14, <1>15, <2>1 DEF FieldsRead
<1>18. n + 1 - (i + 1) = n - i
  BY <1>2, <1>3
<1>19. AtField(c, i + 1)'
  BY <1>1, <1>2, <1>4, <1>10, <1>15, <1>16, <1>17, <1>18 DEF AtField, n, e
<1> QED
  BY <1>1, <1>3, <1>15, <1>19 DEF n

LEMMA FieldsEnd ==
  ASSUME NEW c \in Jvms, input = Given(c), IsOut, NEW i \in 1 .. Len(c.fields) + 1, AtField(c, i),
         Class!EndOfFields
  PROVE  AtMethod(c, 1)' /\ IsOut' /\ input' = input
<1> DEFINE n == Len(c.fields)
           w == Class!Written(c)
           r == input.rest
           b == MethodsAt(c)
           nm == Len(c.methods)
<1>1. /\ Class!Top.left = 0 /\ Class!Readable(pos)
      /\ stack' = <<[in |-> "methods", left |-> r[pos]]>> /\ pos' = pos + 1
      /\ input' = input /\ status' = status /\ out' = out
  BY DEF Class!EndOfFields, Class!Done, Class!Rest
<1>2. Class!Top.left = n + 1 - i /\ n \in Nat
  BY FieldLoop
<1>3. i = n + 1
  BY <1>1, <1>2
<1>4. pos = FieldStart(c, i) + 1 /\ status = "members" /\ HeadRead(c) /\ FieldsRead(c, i - 1) /\ out.methods = <<>>
  BY DEF AtField
<1>5. FieldStart(c, n + 1) = b
  BY FieldsStand
<1>6. w[b + 1] = nm /\ b \in Nat /\ MethodStart(c, 1) = b + 1 /\ nm \in Nat
  BY MethodsStand
<1>7. Held(c) \in Nat /\ Len(r) = Held(c) /\ \A k \in 1 .. Held(c) : r[k] = w[k]
  BY RestIs
<1> HIDE DEF n, w, r, b, nm
<1>8. pos = b + 1
  BY <1>3, <1>4, <1>5
<1>9. r[pos] = nm
  <2>1. pos <= Held(c)
    BY <1>1, <1>7 DEF Class!Readable, Class!Rest, r
  <2>2. pos \in 1 .. Held(c)
    BY <1>6, <1>7, <1>8, <2>1
  <2> QED
    BY <1>6, <1>7, <1>8, <2>2
<1>10. pos' = MethodStart(c, 1) + 1 /\ nm + 1 - 1 = nm /\ i - 1 = n
  BY <1>1, <1>2, <1>3, <1>6, <1>8
<1>11. IsOut' /\ HeadRead(c)' /\ FieldsRead(c, n)' /\ out'.methods = <<>>
  BY <1>1, <1>4, <1>10 DEF HeadRead, AllRead, FieldsRead, IsOut
<1>12. MethodsRead(c, 1 - 1, 1 - 1)'
  BY <1>11 DEF MethodsRead
<1> QED
  BY <1>1, <1>4, <1>9, <1>10, <1>11, <1>12 DEF AtMethod, n, nm

LEMMA FieldsTruncated ==
  ASSUME NEW c \in Jvms, input = Given(c), IsOut, NEW i \in 1 .. Len(c.fields) + 1, AtField(c, i),
         Class!Truncated
  PROVE  IsOut' /\ Refused(c)' /\ input' = input
<1> DEFINE n == Len(c.fields)
           w == Class!Written(c)
<1>1. status = "members" /\ pos = FieldStart(c, i) + 1
  BY DEF AtField
<1>2. Class!Top.in = "fields" /\ Class!Top.left = n + 1 - i /\ n \in Nat
  BY FieldLoop
<1>3. /\ Held(c) \in Nat /\ Len(input.rest) = Held(c) /\ (c.cut = 0 => Held(c) = Len(w))
      /\ Class!Beyond = Held(c) + 2
  BY RestIs DEF Class!Beyond, Class!Rest
<1>4. ASSUME Class!Top.left > 0, Class!SkipAttributes(pos + 3) = Class!Beyond PROVE c.cut # 0
  <2> DEFINE s == FieldStart(c, i)
             e == FieldStart(c, i + 1)
  <2>1. i \in 1 .. n
    BY <1>2, <1>4
  <2>2. /\ s \in Nat /\ e \in Nat /\ e <= Len(w)
        /\ Class!SkipAttributes(s + 4) = IF e <= Held(c) THEN e + 1 ELSE Held(c) + 2
    BY <2>1, FieldSkips
  <2> HIDE DEF s, e, n, w
  <2>3. pos + 3 = s + 4
    BY <1>1, <2>2 DEF s
  <2>4. ~(e <= Held(c))
    BY <1>3, <1>4, <2>2, <2>3
  <2> QED
    BY <1>3, <2>2, <2>4
<1>5. ASSUME Class!Top.left = 0, ~Class!Readable(pos) PROVE c.cut # 0
  <2>1. i = n + 1
    BY <1>2, <1>5
  <2>2. pos = MethodsAt(c) + 1
    BY <1>1, <2>1, FieldsStand
  <2>3. pos <= Len(w)
    BY <2>2, MethodsStand
  <2> QED
    BY <1>3, <1>5, <2>3 DEF Class!Readable, Class!Rest
<1>6. c.cut # 0
  BY <1>1, <1>2, <1>4, <1>5 DEF Class!Truncated, Class!In, Class!Done, Class!CodeFits
<1>7. ~Class!Sound(c)
  BY <1>6 DEF Class!Sound
<1> DEFINE e == "end"
<1>8. e \notin {"pool", "members", "done"}
  OBVIOUS
<1>9. Class!Fail(e)
  BY DEF Class!Truncated
<1> HIDE DEF e
<1> QED
  BY <1>7, <1>8, <1>9, JvmFails

-----------------------------------------------------------------------------
\* The methods.
LEMMA MethodLoop ==
  ASSUME NEW c \in Jvms, NEW i \in 1 .. Len(c.methods) + 1, AtMethod(c, i)
  PROVE  /\ Class!Top.in = "methods" /\ Class!Top.left = Len(c.methods) + 1 - i
         /\ Class!Top.left \in Nat /\ Len(c.methods) \in Nat
         /\ Class!Left = <<[in |-> "methods", left |-> Len(c.methods) - i]>>
<1> DEFINE loop == "methods"
           k == Len(c.methods) + 1 - i
<1>1. Len(c.methods) \in Nat
  BY MethodsStand
<1>2. k \in Nat /\ k - 1 = Len(c.methods) - i
  BY <1>1
<1>3. stack = <<[in |-> loop, left |-> k]>>
  BY DEF AtMethod
<1> HIDE DEF loop, k
<1>4. /\ Class!Top.in = loop /\ Class!Top.left = k
      /\ Class!Left = <<[in |-> loop, left |-> k - 1]>>
  BY <1>2, <1>3, OneLoop
<1> QED
  BY <1>1, <1>2, <1>4 DEF loop, k

LEMMA MethodReads ==
  ASSUME NEW c \in Jvms, input = Given(c), IsOut, NEW i \in 1 .. Len(c.methods) + 1, AtMethod(c, i),
         Class!ReadMethod
  PROVE  i \in 1 .. Len(c.methods) /\ AtAttribute(c, i, 1)' /\ IsOut' /\ input' = input
<1> DEFINE n == Len(c.methods)
           s == MethodStart(c, i)
           w == Class!Written(c)
           r == input.rest
           m == c.methods[i]
           name == c.methods[i].name
           na == Len(c.methods[i].attributes)
           new == [name |-> name, code |-> <<>>]
<1>1. /\ Class!Top.left > 0 /\ Class!Readable(pos + 3)
      /\ out' = [out EXCEPT !.methods = Append(@, [name |-> Class!Utf8(r[pos + 1], "method"), code |-> <<>>])]
      /\ stack' = Append(Class!Left, [in |-> "attributes", left |-> r[pos + 3]])
      /\ pos' = pos + 4 /\ input' = input /\ status' = status
  BY DEF Class!ReadMethod, Class!In, Class!Rest
<1>2. /\ Class!Top.left = n + 1 - i /\ n \in Nat
      /\ Class!Left = <<[in |-> "methods", left |-> n - i]>>
  BY MethodLoop
<1>3. i \in 1 .. n
  BY <1>1, <1>2
<1>4. /\ pos = s + 1 /\ status = "members" /\ HeadRead(c) /\ FieldsRead(c, Len(c.fields))
      /\ MethodsRead(c, i - 1, i - 1)
  BY DEF AtMethod
<1>5. /\ s \in Nat /\ HasMember(w, s, m, c.pool) /\ GoodMember(m, c.pool)
  BY <1>2, <1>3, MethodsStand
<1>6. w[s + 2] = Class!NumberOf("utf8", name, c.pool) /\ w[s + 4] = na
  BY <1>5 DEF HasMember
<1>7. name \in STRING /\ Class!Named("utf8", name, c.pool)
  BY <1>5 DEF GoodMember, Class!MemberTypes
<1>8. Held(c) \in Nat /\ Len(r) = Held(c) /\ \A k \in 1 .. Held(c) : r[k] = w[k]
  BY RestIs
<1>9. AttributeStart(c, i, 1) = s + 4 /\ na \in Nat
  BY <1>3, AttributesStand
<1> HIDE DEF n, s, w, r, m, name, na
<1>10. pos + 3 = s + 4 /\ pos + 1 = s + 2 /\ s + 2 \in 1 .. Held(c) /\ s + 4 \in 1 .. Held(c)
  <2>1. pos + 3 = s + 4 /\ pos + 1 = s + 2
    BY <1>4, <1>5
  <2>2. s + 4 <= Held(c)
    BY <1>1, <1>8, <2>1 DEF Class!Readable, Class!Rest, r
  <2> QED
    BY <1>5, <1>8, <2>1, <2>2
<1>11. r[pos + 3] = na
  BY <1>6, <1>8, <1>10
<1>12. Class!Utf8(r[pos + 1], "method") = name
  <2>1. r[pos + 1] = Class!NumberOf("utf8", name, c.pool)
    BY <1>6, <1>8, <1>10
  <2>2. AllRead(c)
    BY <1>4 DEF HeadRead
  <2>3. \A d : Class!Utf8(Class!NumberOf("utf8", name, c.pool), d) = name
    BY <1>7, <2>2, NameHeld
  <2> QED
    BY <2>1, <2>3
<1> DEFINE f == Append(out.methods, new)
<1>13. out' = [out EXCEPT !.methods = f]
  BY <1>1, <1>12
<1>14. stack' = <<[in |-> "methods", left |-> n - i], [in |-> "attributes", left |-> na]>>
  BY <1>1, <1>2, <1>11, TwoOfOne
<1>15. new \in MethodRecords /\ new.name = name /\ new.code = <<>>
  BY <1>7 DEF MethodRecords
<1>16. /\ out.methods \in Seq(MethodRecords) /\ Len(out.methods) = i - 1
       /\ \A x \in 1 .. i - 1 : MethodSoFar(out.methods[x], c.methods[x], Len(c.methods[x].attributes))
  BY <1>4 DEF MethodsRead
<1> HIDE DEF new
<1>17. f \in Seq(MethodRecords) /\ Len(f) = i /\ f[i] = new /\ \A x \in 1 .. i - 1 : f[x] = out.methods[x]
  <2>1. i - 1 \in Nat /\ (i - 1) + 1 = i
    BY <1>2, <1>3
  <2> QED
    BY <1>15, <1>16, <2>1
<1> HIDE DEF f
<1>18. /\ out'.pool = out.pool /\ out'.interfaces = out.interfaces /\ out'.fields = out.fields /\ out'.methods = f
       /\ IsOut'
  BY <1>13 DEF IsOut
<1>19. HeadRead(c)' /\ FieldsRead(c, Len(c.fields))'
  BY <1>4, <1>18 DEF HeadRead, AllRead, FieldsRead
<1>20. MethodsRead(c, i, i - 1)'
  <2>1. \A x \in 1 .. i - 1 : MethodSoFar(f[x], c.methods[x], Len(c.methods[x].attributes))
    BY <1>16, <1>17
  <2> QED
    BY <1>17, <1>18, <2>1 DEF MethodsRead
<1>21. MethodSoFar(out'.methods[i], c.methods[i], 1 - 1)
  <2>1. \A k \in 1 .. 1 - 1 : FALSE
    OBVIOUS
  <2>2. new.name = m.name
    BY <1>15 DEF name, m
  <2> QED
    BY <1>15, <1>17, <1>18, <2>1, <2>2 DEF MethodSoFar, m
<1>22. pos' = AttributeStart(c, i, 1) + 1 /\ na + 1 - 1 = na
  BY <1>1, <1>4, <1>5, <1>9
<1>23. AtAttribute(c, i, 1)'
  BY <1>1, <1>4, <1>14, <1>19, <1>20, <1>21, <1>22 DEF AtAttribute, n, na
<1> QED
  BY <1>1, <1>3, <1>18, <1>23 DEF n

LEMMA EndSkips ==
  ASSUME NEW c \in Jvms, input = Given(c)
  PROVE  LET n == Len(Class!Written(c)) IN
         /\ n \in Nat /\ Held(c) \in Nat /\ Class!Beyond = Held(c) + 2
         /\ Class!SkipAttributes(EndAt(c) + 1) = IF n <= Held(c) THEN n + 1 ELSE Held(c) + 2
         /\ c.cut # 0 => Held(c) < n
         /\ c.cut = 0 => Held(c) = n
<1> DEFINE w == Class!Written(c)
<1>1. /\ Held(c) \in Nat /\ Len(w) \in Nat /\ Len(input.rest) = Held(c)
      /\ c.cut # 0 => Held(c) < Len(w)
      /\ c.cut = 0 => Held(c) = Len(w)
  BY RestIs
<1>2. EndAt(c) \in Nat
  BY WrittenIs
<1>3. PICK start : Chain(w, EndAt(c), 1, start) /\ start[1] = Len(w)
  BY EndChain
<1>4. Class!SkipAttributes(EndAt(c) + 1) = IF start[1] <= Held(c) THEN start[1] + 1 ELSE Held(c) + 2
  <2> DEFINE k == 1
  <2>1. k \in Nat /\ Chain(w, EndAt(c), k, start)
    BY <1>3
  <2> HIDE DEF k
  <2>2. Class!SkipAttributes(EndAt(c) + 1) = IF start[k] <= Held(c) THEN start[k] + 1 ELSE Held(c) + 2
    BY <1>2, <2>1, Skips
  <2> QED
    BY <2>2 DEF k
<1> QED
  BY <1>1, <1>3, <1>4 DEF Class!Beyond, Class!Rest

LEMMA ClassReads ==
  ASSUME NEW c \in Jvms, input = Given(c), IsOut, NEW i \in 1 .. Len(c.methods) + 1, AtMethod(c, i),
         Class!EndOfClass
  PROVE  WholeClass(c)' /\ IsOut' /\ input' = input
<1> DEFINE n == Len(c.methods)
<1>1. /\ Class!Top.left = 0 /\ Class!SkipAttributes(pos) # Class!Beyond
      /\ status' = "done" /\ input' = input /\ out' = out
  BY DEF Class!EndOfClass, Class!Done
<1>2. Class!Top.left = n + 1 - i /\ n \in Nat
  BY MethodLoop
<1>3. i = n + 1 /\ i - 1 = n
  BY <1>1, <1>2
<1>4. /\ pos = MethodStart(c, i) + 1 /\ HeadRead(c) /\ FieldsRead(c, Len(c.fields))
      /\ MethodsRead(c, i - 1, i - 1)
  BY DEF AtMethod
<1>5. pos = EndAt(c) + 1
  BY <1>3, <1>4, MethodsStand
<1>6. c.cut = 0
  <2> DEFINE k == Len(Class!Written(c))
  <2>1. /\ k \in Nat /\ Held(c) \in Nat /\ Class!Beyond = Held(c) + 2
        /\ Class!SkipAttributes(EndAt(c) + 1) = IF k <= Held(c) THEN k + 1 ELSE Held(c) + 2
        /\ c.cut # 0 => Held(c) < k
    BY EndSkips
  <2> HIDE DEF k
  <2> QED
    BY <1>1, <1>5, <2>1
<1>7. MethodsRead(c, n, n)
  BY <1>3, <1>4
<1>8. HeadRead(c)' /\ FieldsRead(c, Len(c.fields))' /\ MethodsRead(c, n, n)' /\ IsOut'
  BY <1>1, <1>4, <1>7 DEF HeadRead, AllRead, FieldsRead, MethodsRead, IsOut
<1> QED
  BY <1>1, <1>6, <1>8 DEF WholeClass, n

LEMMA MethodsTruncated ==
  ASSUME NEW c \in Jvms, input = Given(c), IsOut, NEW i \in 1 .. Len(c.methods) + 1, AtMethod(c, i),
         Class!Truncated
  PROVE  IsOut' /\ Refused(c)' /\ input' = input
<1> DEFINE n == Len(c.methods)
           w == Class!Written(c)
<1>1. status = "members" /\ pos = MethodStart(c, i) + 1
  BY DEF AtMethod
<1>2. Class!Top.in = "methods" /\ Class!Top.left = n + 1 - i /\ n \in Nat
  BY MethodLoop
<1>3. /\ Held(c) \in Nat /\ Len(input.rest) = Held(c) /\ (c.cut = 0 => Held(c) = Len(w))
  BY RestIs
<1>4. ASSUME Class!Top.left > 0, ~Class!Readable(pos + 3) PROVE c.cut # 0
  <2>1. i \in 1 .. n
    BY <1>2, <1>4
  <2>2. MethodStart(c, i) + 4 <= Len(w) /\ MethodStart(c, i) \in Nat
    BY <1>2, <2>1, AttributesStand, MethodsStand
  <2>3. pos + 3 <= Len(w)
    BY <1>1, <2>2
  <2> QED
    BY <1>3, <1>4, <2>3 DEF Class!Readable, Class!Rest
<1>5. ASSUME Class!Top.left = 0, Class!SkipAttributes(pos) = Class!Beyond PROVE c.cut # 0
  <2> DEFINE k == Len(w)
  <2>1. i = n + 1
    BY <1>2, <1>5
  <2>2. pos = EndAt(c) + 1
    BY <1>1, <2>1, MethodsStand
  <2>3. /\ k \in Nat /\ Held(c) \in Nat /\ Class!Beyond = Held(c) + 2
        /\ Class!SkipAttributes(EndAt(c) + 1) = IF k <= Held(c) THEN k + 1 ELSE Held(c) + 2
        /\ c.cut = 0 => Held(c) = k
    BY EndSkips
  <2> HIDE DEF k
  <2> QED
    BY <1>5, <2>2, <2>3
<1>6. c.cut # 0
  BY <1>1, <1>2, <1>4, <1>5 DEF Class!Truncated, Class!In, Class!Done, Class!CodeFits
<1>7. ~Class!Sound(c)
  BY <1>6 DEF Class!Sound
<1> DEFINE e == "end"
<1>8. e \notin {"pool", "members", "done"}
  OBVIOUS
<1>9. Class!Fail(e)
  BY DEF Class!Truncated
<1> HIDE DEF e
<1> QED
  BY <1>7, <1>8, <1>9, JvmFails

-----------------------------------------------------------------------------
\* The attributes of a method.
LEMMA AttributeLoop ==
  ASSUME NEW c \in Jvms, NEW i \in 1 .. Len(c.methods), NEW j \in 1 .. Len(c.methods[i].attributes) + 1,
         AtAttribute(c, i, j)
  PROVE  LET n == Len(c.methods[i].attributes)
             x == [in |-> "methods", left |-> Len(c.methods) - i]
         IN  /\ Class!Top.in = "attributes" /\ Class!Top.left = n + 1 - j
             /\ Class!Top.left \in Nat /\ n \in Nat /\ Class!Front(stack) = <<x>>
             /\ Class!Left = <<x, [in |-> "attributes", left |-> n - j]>>
<1> DEFINE loop == "attributes"
           n == Len(c.methods[i].attributes)
           x == [in |-> "methods", left |-> Len(c.methods) - i]
           k == n + 1 - j
<1>1. n \in Nat
  BY AttributesStand
<1>2. k \in Nat /\ k - 1 = n - j
  BY <1>1
<1>3. stack = <<x, [in |-> loop, left |-> k]>>
  BY DEF AtAttribute
<1> HIDE DEF loop, k, x
<1>4. /\ Class!Top.in = loop /\ Class!Top.left = k /\ Class!Front(stack) = <<x>>
      /\ Class!Left = <<x, [in |-> loop, left |-> k - 1]>>
  BY <1>2, <1>3, TwoLoops
<1> QED
  BY <1>1, <1>2, <1>4 DEF loop, k, x

LEMMA AttributeHere ==
  ASSUME NEW c \in Jvms, input = Given(c), NEW i \in 1 .. Len(c.methods),
         NEW j \in 1 .. Len(c.methods[i].attributes), AtAttribute(c, i, j)
  PROVE  LET a == c.methods[i].attributes[j]
             b == AttributeStart(c, i, j)
             w == Class!Written(c)
         IN  /\ b \in Nat /\ pos = b + 1 /\ HasAttribute(w, b, a, c.pool) /\ GoodAttribute(a, c.pool)
             /\ AttributeStart(c, i, j + 1) = b + 2 + Len(Inside(a))
             /\ Len(Inside(a)) \in Nat /\ Stated(a) \in Nat
             /\ w[b + 1] = Class!NumberOf("utf8", a.name, c.pool) /\ w[b + 2] = Stated(a)
             /\ b + 2 + Len(Inside(a)) <= Len(w)
             /\ b + 1 <= Held(c) =>
                  /\ Class!IsCode => a.name = "Code"
                  /\ a.name = "Code" => Class!IsCode
<1> DEFINE a == c.methods[i].attributes[j]
           b == AttributeStart(c, i, j)
           w == Class!Written(c)
           r == input.rest
<1>1. j \in 1 .. Len(c.methods[i].attributes) + 1
  BY AttributesStand
<1>2. /\ b \in Nat /\ HasAttribute(w, b, a, c.pool) /\ GoodAttribute(a, c.pool)
      /\ AttributeStart(c, i, j + 1) = b + 2 + Len(Inside(a))
  BY <1>1, AttributesStand
<1>3. pos = b + 1 /\ AllRead(c)
  BY DEF AtAttribute, HeadRead
<1>4. c.pool \in Seq(PoolTypes)
  BY JvmIs
<1>5. Len(Inside(a)) \in Nat /\ Stated(a) \in Nat
  BY <1>2, <1>4, InsideIs
<1>6. /\ w[b + 1] = Class!NumberOf("utf8", a.name, c.pool) /\ w[b + 2] = Stated(a)
      /\ b + 2 + Len(Inside(a)) <= Len(w)
  BY <1>2 DEF HasAttribute
<1>7. Class!Named("utf8", a.name, c.pool)
  BY <1>2 DEF GoodAttribute
<1>8. \A d : Class!Utf8(Class!NumberOf("utf8", a.name, c.pool), d) = a.name
  BY <1>3, <1>7, NameHeld
<1>9. ASSUME b + 1 <= Held(c) PROVE Class!Utf8(r[pos], "") = a.name
  <2>1. \A k \in 1 .. Held(c) : r[k] = w[k]
    BY RestIs
  <2>2. Held(c) \in Nat
    BY RestIs
  <2> HIDE DEF b, w, r, a
  <2>3. b + 1 \in 1 .. Held(c)
    BY <1>2, <1>9, <2>2
  <2>4. r[pos] = Class!NumberOf("utf8", a.name, c.pool)
    BY <1>3, <1>6, <2>1, <2>3
  <2> QED
    BY <1>8, <2>4
<1>10. b + 1 <= Held(c) => (Class!IsCode => a.name = "Code") /\ (a.name = "Code" => Class!IsCode)
  BY <1>9 DEF Class!IsCode, Class!Rest
<1> QED
  BY <1>2, <1>3, <1>5, <1>6, <1>10

\* The parts of a Code attribute, as far as they are in the file.
CodeHeld == /\ Class!Readable(pos + 4) /\ Class!Readable(Class!Table) /\ Class!InnerAt # Class!Beyond
            /\ Class!SkipAttributes(Class!InnerAt) # Class!Beyond

LEMMA CodeParts ==
  ASSUME NEW c \in Jvms, input = Given(c), NEW a, GoodAttribute(a, c.pool), a.name = "Code",
         NEW b \in Nat, pos = b + 1, HasAttribute(Class!Written(c), b, a, c.pool)
  PROVE  /\ c.cut = 0 => CodeHeld
         /\ CodeHeld => /\ Class!Table = b + 6 + Len(a.code) /\ b + 6 + Len(a.code) <= Held(c)
                        /\ Class!Used = Len(CodeText(a))
         /\ Len(CodeText(a)) \in Nat /\ Lies(Class!Written(c), b + 5, a.code)
         /\ a.code \in Seq(Nat) /\ Len(a.code) \in Nat
<1> DEFINE w == Class!Written(c)
           r == input.rest
           lc == Len(a.code)
           h == a.handlers
           n == a.inner
           lt == Len(CodeText(a))
           off == b + 6 + lc + 4 * h
<1>1. a \in Class!AttributeTypes
  BY DEF GoodAttribute
<1>2. a.code \in Seq(Nat) /\ lc \in Nat /\ h \in Nat /\ n \in Nat
  BY <1>1 DEF Class!AttributeTypes
<1>3. HasCode(w, b + 2, a)
  BY DEF HasAttribute
<1>4. lt \in Nat
  <2>1. CodeText(a) \in Seq(Nat)
    BY <1>1, CodeTextIs
  <2> QED
    BY <2>1
<1>5. (b + 2) + 3 = b + 5 /\ (b + 2) + 4 + lc = b + 6 + lc /\ off \in Nat /\ (b + 2) + 4 + lc + 4 * h = off
  <2> HIDE DEF lc, h
  <2> QED
    BY <1>2
<1>6. /\ (b + 2) + lt <= Len(w) /\ w[b + 5] = lc /\ Lies(w, b + 5, a.code) /\ w[b + 6 + lc] = h
      /\ \E start : Chain(w, off, n, start) /\ start[n] = (b + 2) + lt
  <2>1. /\ (b + 2) + lt <= Len(w) /\ w[(b + 2) + 3] = lc /\ Lies(w, (b + 2) + 3, a.code)
        /\ w[(b + 2) + 4 + lc] = h
        /\ \E start : Chain(w, (b + 2) + 4 + lc + 4 * h, n, start) /\ start[n] = (b + 2) + lt
    BY <1>3 DEF HasCode
  <2> HIDE DEF off, lc, h, n, lt, w
  <2> QED
    BY <1>5, <2>1
<1>7. PICK start : Chain(w, off, n, start) /\ start[n] = (b + 2) + lt
  BY <1>6
<1>8. /\ Held(c) \in Nat /\ Len(r) = Held(c) /\ (\A k \in 1 .. Held(c) : r[k] = w[k])
      /\ Len(w) \in Nat /\ (c.cut = 0 => Held(c) = Len(w))
  BY RestIs
<1>9. /\ start[n] >= off + 1
      /\ Class!SkipAttributes(off + 1) = IF start[n] <= Held(c) THEN start[n] + 1 ELSE Held(c) + 2
  BY <1>2, <1>5, <1>7, Skips
<1>10. /\ \A x \in Nat : Class!Readable(x) <=> x <= Held(c)
       /\ Class!Beyond = Held(c) + 2
       /\ \A x \in Nat : Class!Sought(x) = IF x > Held(c) + 1 THEN Held(c) + 2 ELSE x
  BY <1>8 DEF Class!Readable, Class!Beyond, Class!Sought, Class!Rest
<1>11. /\ Class!CodeSize = r[pos + 4] /\ Class!Table = pos + 5 + Class!CodeSize
       /\ Class!InnerAt = Class!Sought(Class!Table + 1 + 4 * r[Class!Table])
       /\ Class!Used = Class!SkipAttributes(Class!InnerAt) - (pos + 2)
  BY DEF Class!CodeSize, Class!Table, Class!InnerAt, Class!Used, Class!CodeStart, Class!Handler, Class!Rest
<1> HIDE DEF w, r, lc, h, n, lt, off
<1>12. pos + 4 = b + 5 /\ b + 5 \in Nat /\ pos + 5 + lc = b + 6 + lc /\ b + 6 + lc \in Nat /\ pos + 2 = b + 3
  BY <1>2
<1>13. off = b + 6 + lc + 4 * h /\ off + 1 = (b + 6 + lc) + 1 + 4 * h
  BY <1>2 DEF off
<1>14. ASSUME b + 5 <= Held(c) PROVE Class!Table = b + 6 + lc
  <2>1. b + 5 \in 1 .. Held(c)
    BY <1>8, <1>12, <1>14
  <2>2. r[pos + 4] = lc
    BY <1>6, <1>8, <1>12, <2>1
  <2> QED
    BY <1>11, <1>12, <2>2
<1>15. ASSUME b + 6 + lc <= Held(c) PROVE Class!Table = b + 6 + lc /\ Class!InnerAt = Class!Sought(off + 1)
  <2>1. b + 5 <= Held(c) /\ b + 6 + lc \in 1 .. Held(c)
    BY <1>2, <1>8, <1>12, <1>15
  <2>2. Class!Table = b + 6 + lc
    BY <1>14, <2>1
  <2>3. r[Class!Table] = h
    BY <1>6, <1>8, <2>1, <2>2
  <2> QED
    BY <1>11, <1>13, <2>2, <2>3
<1> DEFINE e == (b + 2) + lt
<1>16. e \in Nat /\ e >= off + 1 /\ Class!SkipAttributes(off + 1) = IF e <= Held(c) THEN e + 1 ELSE Held(c) + 2
  BY <1>4, <1>7, <1>9
<1>17. b + 6 + lc <= off /\ b + 5 <= b + 6 + lc
  BY <1>2, <1>13
<1>18. ASSUME CodeHeld PROVE /\ Class!Table = b + 6 + lc /\ b + 6 + lc <= Held(c) /\ Class!Used = lt
  <2>1. /\ Class!Readable(b + 5) /\ Class!Readable(Class!Table) /\ Class!InnerAt # Class!Beyond
        /\ Class!SkipAttributes(Class!InnerAt) # Class!Beyond
    BY <1>12, <1>18 DEF CodeHeld
  <2>2. b + 5 <= Held(c)
    BY <1>10, <1>12, <2>1
  <2>3. Class!Table = b + 6 + lc /\ b + 6 + lc <= Held(c)
    BY <1>10, <1>12, <1>14, <2>1, <2>2
  <2>4. off + 1 \in Nat
    BY <1>5
  <2>5. Class!InnerAt = off + 1
    BY <1>10, <1>15, <2>1, <2>3, <2>4
  <2>6. Class!SkipAttributes(off + 1) = e + 1
    BY <1>10, <1>16, <2>1, <2>5
  <2>7. e + 1 - (b + 3) = lt
    BY <1>4
  <2> HIDE DEF e
  <2> QED
    <3>1. Class!SkipAttributes(Class!InnerAt) - (pos + 2) = lt
      <4>1. Class!SkipAttributes(Class!InnerAt) = e + 1
        BY <2>5, <2>6
      <4> DEFINE x == Class!SkipAttributes(Class!InnerAt)
                 y == pos + 2
      <4>2. x = e + 1 /\ y = b + 3
        BY <1>12, <4>1
      <4> HIDE DEF x, y
      <4>3. x - y = lt
        BY <1>4, <1>16, <2>7, <4>2
      <4> QED
        BY <4>3 DEF x, y
    <3> QED
      BY <1>11, <2>3, <3>1
<1>19. ASSUME c.cut = 0 PROVE CodeHeld
  <2>1. e <= Held(c)
    BY <1>6, <1>8, <1>19
  <2> HIDE DEF e
  <2>2. off + 1 <= Held(c) /\ b + 6 + lc <= Held(c) /\ b + 5 <= Held(c)
    BY <1>5, <1>8, <1>12, <1>16, <1>17, <2>1
  <2>3. Class!Table = b + 6 + lc /\ Class!InnerAt = off + 1
    <3>1. off + 1 \in Nat /\ ~(off + 1 > Held(c) + 1)
      BY <1>5, <1>8, <2>2
    <3> QED
      BY <1>10, <1>15, <2>2, <3>1
  <2>4. Class!InnerAt # Class!Beyond
    BY <1>5, <1>8, <1>10, <2>2, <2>3
  <2>5. Class!SkipAttributes(off + 1) = e + 1 /\ e + 1 # Held(c) + 2
    BY <1>8, <1>16, <2>1
  <2> QED
    BY <1>10, <1>12, <2>2, <2>3, <2>4, <2>5 DEF CodeHeld
<1> QED
  BY <1>2, <1>4, <1>6, <1>18, <1>19 DEF w, lc, lt

LEMMA AttributeSkips ==
  ASSUME NEW c \in Jvms, input = Given(c), IsOut, NEW i \in 1 .. Len(c.methods),
         NEW j \in 1 .. Len(c.methods[i].attributes) + 1, AtAttribute(c, i, j), Class!SkipAttribute
  PROVE  /\ j \in 1 .. Len(c.methods[i].attributes) /\ AtAttribute(c, i, j + 1)'
         /\ IsOut' /\ input' = input
<1> DEFINE m == c.methods[i]
           n == Len(m.attributes)
           a == m.attributes[j]
           b == AttributeStart(c, i, j)
           w == Class!Written(c)
           r == input.rest
           x == [in |-> "methods", left |-> Len(c.methods) - i]
<1>1. /\ Class!Top.left > 0 /\ Class!Readable(pos + 1) /\ ~Class!IsCode
      /\ pos' = pos + 2 + r[pos + 1]
      /\ stack' = Class!Left /\ input' = input /\ out' = out /\ status' = status
  BY DEF Class!SkipAttribute, Class!In, Class!Rest
<1>2. /\ Class!Top.left = n + 1 - j /\ n \in Nat
      /\ Class!Left = <<x, [in |-> "attributes", left |-> n - j]>>
  BY AttributeLoop
<1>3. j \in 1 .. n
  <2> HIDE DEF n
  <2> QED
    BY <1>1, <1>2
<1>4. /\ b \in Nat /\ pos = b + 1 /\ GoodAttribute(a, c.pool)
      /\ AttributeStart(c, i, j + 1) = b + 2 + Len(Inside(a)) /\ Len(Inside(a)) \in Nat
      /\ w[b + 2] = Stated(a)
      /\ b + 1 <= Held(c) => (a.name = "Code" => Class!IsCode)
  BY <1>3, AttributeHere
<1>5. /\ Held(c) \in Nat /\ Len(r) = Held(c) /\ \A k \in 1 .. Held(c) : r[k] = w[k]
  BY RestIs
<1>6. pos + 1 <= Held(c)
  BY <1>1, <1>5 DEF Class!Readable, Class!Rest
<1>7. b + 2 \in 1 .. Held(c) /\ b + 1 <= Held(c) /\ pos + 1 = b + 2
  <2> HIDE DEF b
  <2> QED
    BY <1>4, <1>5, <1>6
<1>8. a.name # "Code"
  BY <1>1, <1>4, <1>7
<1>9. ~a.short
  BY <1>4, <1>8 DEF GoodAttribute
<1>10. r[pos + 1] = Len(Inside(a))
  <2>1. Stated(a) = Len(Inside(a))
    BY <1>4, <1>9 DEF Stated
  <2>2. r[pos + 1] = w[b + 2]
    BY <1>5, <1>7
  <2> QED
    BY <1>4, <2>1, <2>2
<1>11. pos' = AttributeStart(c, i, j + 1) + 1
  <2> DEFINE l == Len(Inside(a))
  <2>1. pos' = (b + 1) + 2 + l /\ AttributeStart(c, i, j + 1) = b + 2 + l /\ l \in Nat
    BY <1>1, <1>4, <1>10
  <2> HIDE DEF l, b
  <2>2. (b + 1) + 2 + l = (b + 2 + l) + 1
    BY <1>4, <2>1
  <2> QED
    BY <2>1, <2>2
<1>12. /\ status = "members" /\ HeadRead(c) /\ FieldsRead(c, Len(c.fields)) /\ MethodsRead(c, i, i - 1)
       /\ MethodSoFar(out.methods[i], m, j - 1)
  BY DEF AtAttribute
<1>13. MethodSoFar(out.methods[i], m, j)
  <2>1. \A k \in 1 .. j : k = j \/ k \in 1 .. j - 1
    BY <1>3
  <2>2. 1 .. j - 1 \subseteq 1 .. j
    BY <1>3
  <2> HIDE DEF m
  <2> QED
    BY <1>8, <1>9, <1>12, <2>1, <2>2 DEF MethodSoFar
<1>14. HeadRead(c)' /\ FieldsRead(c, Len(c.fields))' /\ MethodsRead(c, i, i - 1)' /\ IsOut'
  BY <1>1, <1>12 DEF HeadRead, AllRead, FieldsRead, MethodsRead, IsOut
<1>15. MethodSoFar(out'.methods[i], m, (j + 1) - 1)
  <2> DEFINE k == (j + 1) - 1
             g == out'.methods[i]
  <2>1. k = j /\ g = out.methods[i]
    BY <1>1, <1>3
  <2> HIDE DEF k, g
  <2>2. MethodSoFar(g, m, k)
    BY <1>13, <2>1
  <2> QED
    BY <2>2 DEF k, g
<1>16. stack' = <<x, [in |-> "attributes", left |-> n + 1 - (j + 1)]>>
  <2>1. n + 1 - (j + 1) = n - j
    <3>1. n \in Nat /\ j \in Nat
      BY <1>2, <1>3
    <3> HIDE DEF n
    <3> QED
      BY <3>1
  <2> QED
    BY <1>1, <1>2, <2>1
<1>17. AtAttribute(c, i, j + 1)'
  BY <1>1, <1>11, <1>12, <1>14, <1>15, <1>16 DEF AtAttribute
<1> QED
  BY <1>1, <1>3, <1>14, <1>17

LEMMA CodeReads ==
  ASSUME NEW c \in Jvms, input = Given(c), IsOut, NEW i \in 1 .. Len(c.methods),
         NEW j \in 1 .. Len(c.methods[i].attributes) + 1, AtAttribute(c, i, j), Class!ReadCode
  PROVE  /\ j \in 1 .. Len(c.methods[i].attributes) /\ AtAttribute(c, i, j + 1)'
         /\ IsOut' /\ input' = input
<1> DEFINE m == c.methods[i]
           n == Len(m.attributes)
           a == m.attributes[j]
           b == AttributeStart(c, i, j)
           w == Class!Written(c)
           r == input.rest
           x == [in |-> "methods", left |-> Len(c.methods) - i]
           code == SubSeq(r, pos + 5, Class!Table - 1)
<1>1. /\ Class!Top.left > 0 /\ Class!Readable(pos + 1) /\ Class!IsCode /\ CodeHeld
      /\ Class!Used <= r[pos + 1]
      /\ pos' = pos + 2 + Class!CodeEnd(Class!Used, r[pos + 1])
      /\ out' = [out EXCEPT !.methods[Len(out.methods)].code = code]
      /\ stack' = Class!Left /\ input' = input /\ status' = status
  BY DEF Class!ReadCode, Class!CodeFits, CodeHeld, Class!CodeStart, Class!In, Class!Rest
<1>2. /\ Class!Top.left = n + 1 - j /\ n \in Nat
      /\ Class!Left = <<x, [in |-> "attributes", left |-> n - j]>>
  BY AttributeLoop
<1>3. j \in 1 .. n
  <2> HIDE DEF n
  <2> QED
    BY <1>1, <1>2
<1>4. /\ b \in Nat /\ pos = b + 1 /\ GoodAttribute(a, c.pool) /\ HasAttribute(w, b, a, c.pool)
      /\ AttributeStart(c, i, j + 1) = b + 2 + Len(Inside(a)) /\ Len(Inside(a)) \in Nat
      /\ w[b + 2] = Stated(a) /\ Stated(a) \in Nat
      /\ b + 1 <= Held(c) => (Class!IsCode => a.name = "Code")
  BY <1>3, AttributeHere
<1>5. /\ Held(c) \in Nat /\ Len(r) = Held(c) /\ \A k \in 1 .. Held(c) : r[k] = w[k]
  BY RestIs
<1>6. pos + 1 <= Held(c)
  BY <1>1, <1>5 DEF Class!Readable, Class!Rest
<1>7. b + 2 \in 1 .. Held(c) /\ b + 1 <= Held(c) /\ pos + 1 = b + 2
  <2> HIDE DEF b
  <2> QED
    BY <1>4, <1>5, <1>6
<1>8. a.name = "Code"
  BY <1>1, <1>4, <1>7
<1>9. /\ Class!Table = b + 6 + Len(a.code) /\ b + 6 + Len(a.code) <= Held(c)
      /\ Class!Used = Len(CodeText(a)) /\ Len(CodeText(a)) \in Nat /\ Lies(w, b + 5, a.code)
      /\ a.code \in Seq(Nat) /\ Len(a.code) \in Nat
  BY <1>1, <1>4, <1>8, CodeParts
<1>10. r[pos + 1] = Stated(a)
  BY <1>4, <1>5, <1>7
<1>11. Len(Inside(a)) = Len(CodeText(a)) + a.slack /\ (a.short => a.slack = 0) /\ a.slack \in Nat
  <2>1. c.pool \in Seq(PoolTypes)
    BY JvmIs
  <2>2. a.name = "Code" => Len(Inside(a)) = Len(CodeText(a)) + a.slack
    BY <1>4, <2>1, InsideIs
  <2> QED
    BY <1>4, <1>8, <2>2 DEF GoodAttribute, Class!AttributeTypes
<1> DEFINE lt == Len(CodeText(a))
           li == Len(Inside(a))
           st == Stated(a)
<1>12. st = li - IF a.short THEN 1 ELSE 0
  BY DEF Stated
<1>13. lt \in Nat /\ li \in Nat /\ li = lt + a.slack /\ lt <= st
  BY <1>1, <1>4, <1>9, <1>10, <1>11
<1> HIDE DEF lt, li, st
<1>14. ~a.short /\ st = li
  BY <1>11, <1>12, <1>13
<1>15. Class!CodeEnd(lt, st) = li
  BY <1>13, <1>14 DEF Class!CodeEnd
<1>16. pos' = AttributeStart(c, i, j + 1) + 1
  <2>1. pos' = (b + 1) + 2 + li
    <3>1. Class!Used = lt /\ r[pos + 1] = st
      BY <1>9, <1>10 DEF lt, st
    <3>2. pos' = pos + 2 + li
      BY <1>1, <1>15, <3>1
    <3> QED
      BY <1>4, <3>2
  <2>2. AttributeStart(c, i, j + 1) = b + 2 + li
    BY <1>4 DEF li
  <2> HIDE DEF b
  <2>3. b \in Nat /\ li \in Nat
    BY <1>4, <1>13
  <2>4. (b + 1) + 2 + li = (b + 2 + li) + 1
    BY <2>3
  <2> QED
    BY <2>1, <2>2, <2>4
<1>17. code = a.code
  <2> DEFINE lc == Len(a.code)
  <2>1. code = SubSeq(r, b + 6, b + 5 + lc)
    <3>1. (b + 1) + 5 = b + 6 /\ (b + 6 + lc) - 1 = b + 5 + lc
      <4>1. lc \in Nat
        BY <1>9
      <4> HIDE DEF b, lc
      <4> QED
        BY <1>4, <4>1
    <3>2. code = SubSeq(r, (b + 1) + 5, (b + 6 + lc) - 1)
      BY <1>4, <1>9
    <3> QED
      BY <3>1, <3>2
  <2>2. r \in Seq(Nat)
    <3>1. w \in Seq(Nat)
      BY WrittenIs
    <3>2. r = SubSeq(w, 1, Held(c)) /\ Held(c) <= Len(w) /\ Len(w) \in Nat
      BY RestIs DEF Given
    <3> HIDE DEF w, r
    <3> QED
      BY <1>5, <3>1, <3>2
  <2>3. \A k \in 1 .. lc : w[(b + 5) + k] = a.code[k]
    BY <1>9 DEF Lies
  <2> DEFINE s == SubSeq(r, b + 6, b + 5 + lc)
             t == a.code
  <2> HIDE DEF r, b, lc, w
  <2>4. b \in Nat /\ lc \in Nat /\ b + 6 + lc <= Held(c)
    BY <1>4, <1>9 DEF lc
  <2>5. s \in Seq(Nat) /\ Len(s) = lc /\ \A k \in 1 .. lc : s[k] = r[b + 5 + k]
    <3>1. b + 6 \in Nat /\ b + 5 + lc \in Nat /\ b + 5 + lc <= Len(r) /\ 1 <= b + 6
      BY <1>5, <2>4
    <3>2. s \in Seq(Nat) /\ Len(s) = lc /\ \A k \in 1 .. lc : s[k] = r[(b + 6) + k - 1]
      <4> DEFINE lo == b + 6
                 hi == b + 5 + lc
      <4>1. lo \in Nat /\ hi \in Nat /\ 1 <= lo /\ hi <= Len(r) /\ hi - lo + 1 = lc
        BY <1>5, <2>4, <3>1
      <4> HIDE DEF lo, hi
      <4>2. SubSeq(r, lo, hi) \in Seq(Nat) /\ Len(SubSeq(r, lo, hi)) = lc
        BY <2>2, <2>4, <4>1
      <4>3. \A k \in 1 .. lc : SubSeq(r, lo, hi)[k] = r[lo + k - 1]
        BY <2>2, <2>4, <4>1
      <4> QED
        BY <4>2, <4>3 DEF lo, hi
    <3>3. \A k \in 1 .. lc : (b + 6) + k - 1 = b + 5 + k
      BY <2>4
    <3> HIDE DEF s
    <3> QED
      BY <3>2, <3>3
  <2> HIDE DEF s
  <2>6. \A k \in 1 .. lc : b + 5 + k \in 1 .. Held(c)
    BY <1>5, <2>4
  <2>7. t \in Seq(Nat) /\ Len(t) = lc
    BY <1>9 DEF lc
  <2>8. \A k \in 1 .. lc : s[k] = t[k]
    BY <1>5, <2>3, <2>5, <2>6
  <2> HIDE DEF t
  <2>9. s = t
    BY <2>5, <2>7, <2>8, SeqEqual
  <2> QED
    BY <2>1, <2>9 DEF s, t
<1>18. /\ status = "members" /\ HeadRead(c) /\ FieldsRead(c, Len(c.fields)) /\ MethodsRead(c, i, i - 1)
       /\ MethodSoFar(out.methods[i], m, j - 1)
  BY DEF AtAttribute
<1> HIDE DEF code
<1>19. /\ out.methods \in Seq(MethodRecords) /\ Len(out.methods) = i
       /\ \A y \in 1 .. i - 1 : MethodSoFar(out.methods[y], c.methods[y], Len(c.methods[y].attributes))
  BY <1>18 DEF MethodsRead
<1>20. i \in Nat /\ i >= 1
  OBVIOUS
<1> DEFINE f == [out.methods EXCEPT ![i].code = code]
<1>21. /\ f \in Seq(MethodRecords) /\ Len(f) = i /\ \A y \in 1 .. i - 1 : f[y] = out.methods[y]
       /\ f[i].name = out.methods[i].name /\ f[i].code = code
  <2> DEFINE old == out.methods
             new == [old[i] EXCEPT !.code = code]
  <2>1. old[i] \in MethodRecords
    BY <1>19, <1>20
  <2>2. code \in Seq(Nat)
    BY <1>9, <1>17
  <2>3. new \in MethodRecords /\ new.name = old[i].name /\ new.code = code
    BY <2>1, <2>2 DEF MethodRecords
  <2>4. f = [old EXCEPT ![i] = new]
    OBVIOUS
  <2> HIDE DEF new, old
  <2>5. old \in Seq(MethodRecords) /\ Len(old) = i
    BY <1>19 DEF old
  <2>6. /\ [old EXCEPT ![i] = new] \in Seq(MethodRecords) /\ Len([old EXCEPT ![i] = new]) = i
        /\ [old EXCEPT ![i] = new][i] = new /\ \A y \in 1 .. i - 1 : [old EXCEPT ![i] = new][y] = old[y]
    BY <1>20, <2>3, <2>5
  <2> HIDE DEF f
  <2> QED
    BY <2>3, <2>4, <2>6 DEF old
<1>22. out' = [out EXCEPT !.methods = f]
  BY <1>1, <1>19
<1> HIDE DEF f
<1>23. /\ out'.pool = out.pool /\ out'.interfaces = out.interfaces /\ out'.fields = out.fields /\ out'.methods = f
       /\ IsOut'
  BY <1>22 DEF IsOut
<1>24. HeadRead(c)' /\ FieldsRead(c, Len(c.fields))'
  BY <1>18, <1>23 DEF HeadRead, AllRead, FieldsRead
<1>25. MethodsRead(c, i, i - 1)'
  <2>1. \A y \in 1 .. i - 1 : MethodSoFar(f[y], c.methods[y], Len(c.methods[y].attributes))
    BY <1>19, <1>21
  <2> QED
    BY <1>21, <1>23, <2>1 DEF MethodsRead
<1>26. ASSUME NEW k \in 1 .. j - 1 PROVE m.attributes[k].name # "Code"
  <2>1. \A k1, k2 \in DOMAIN m.attributes :
          m.attributes[k1].name = "Code" /\ m.attributes[k2].name = "Code" => k1 = k2
    <3>1. i \in DOMAIN c.methods
      <4>1. c.methods \in Seq(Class!MemberTypes)
        BY DEF Jvms, Class!Compiled
      <4> QED
        BY <4>1
    <3> QED
      BY <3>1 DEF Jvms, Class!Compiled
  <2>2. DOMAIN m.attributes = 1 .. n
    <3>1. m \in Class!MemberTypes
      <4>1. c.methods \in Seq(Class!MemberTypes)
        BY DEF Jvms, Class!Compiled
      <4> QED
        BY <4>1, ElementOfSeq
    <3>2. m.attributes \in Seq(Class!AttributeTypes)
      BY <3>1 DEF Class!MemberTypes
    <3> QED
      BY <3>2
  <2>3. k \in 1 .. n /\ k # j
    <3> HIDE DEF n
    <3> QED
      BY <1>2, <1>3
  <2> QED
    BY <1>3, <1>8, <2>1, <2>2, <2>3
<1>27. MethodSoFar(out'.methods[i], m, (j + 1) - 1)
  <2>1. (j + 1) - 1 = j /\ j \in 1 .. j /\ \A k \in 1 .. j : k = j \/ k \in 1 .. j - 1
    BY <1>3
  <2> DEFINE g == f[i]
             d == "Code"
  <2>2. g.name = m.name /\ g.code = a.code
    BY <1>17, <1>18, <1>21 DEF MethodSoFar
  <2>3. \A k \in 1 .. j - 1 : ~m.attributes[k].short /\ m.attributes[k].name # d
    BY <1>18, <1>26 DEF MethodSoFar
  <2>4. m.attributes[j].name = d /\ ~m.attributes[j].short /\ g.code = m.attributes[j].code
    BY <1>8, <1>14, <2>2
  <2> HIDE DEF g, d, m
  <2>5. /\ \A k \in 1 .. j : ~m.attributes[k].short /\ (m.attributes[k].name = d => g.code = m.attributes[k].code)
        /\ ~\A k \in 1 .. j : m.attributes[k].name # d
    BY <2>1, <2>3, <2>4
  <2> DEFINE k == (j + 1) - 1
             h == out'.methods[i]
  <2>6. MethodSoFar(g, m, j) /\ k = j /\ h = g
    BY <1>23, <2>1, <2>2, <2>5 DEF MethodSoFar, d, g
  <2> HIDE DEF k, h
  <2>7. MethodSoFar(h, m, k)
    BY <2>6
  <2> QED
    BY <2>7 DEF k, h
<1>28. stack' = <<x, [in |-> "attributes", left |-> n + 1 - (j + 1)]>>
  <2>1. n + 1 - (j + 1) = n - j
    <3>1. n \in Nat /\ j \in Nat
      BY <1>2, <1>3
    <3> HIDE DEF n
    <3> QED
      BY <3>1
  <2> QED
    BY <1>1, <1>2, <2>1
<1>29. AtAttribute(c, i, j + 1)'
  BY <1>1, <1>16, <1>18, <1>24, <1>25, <1>27, <1>28 DEF AtAttribute
<1> QED
  BY <1>1, <1>3, <1>23, <1>29

LEMMA LengthFails ==
  ASSUME NEW c \in Jvms, input = Given(c), IsOut, NEW i \in 1 .. Len(c.methods),
         NEW j \in 1 .. Len(c.methods[i].attributes) + 1, AtAttribute(c, i, j), Class!LengthMismatch
  PROVE  IsOut' /\ Refused(c)' /\ input' = input
<1> DEFINE m == c.methods[i]
           n == Len(m.attributes)
           a == m.attributes[j]
           b == AttributeStart(c, i, j)
           w == Class!Written(c)
           r == input.rest
<1>1. /\ Class!Top.left > 0 /\ Class!Readable(pos + 1) /\ Class!IsCode /\ CodeHeld
      /\ Class!Used > r[pos + 1]
  BY DEF Class!LengthMismatch, Class!CodeFits, CodeHeld, Class!In, Class!Rest
<1>2. /\ Class!Top.left = n + 1 - j /\ n \in Nat
  BY AttributeLoop
<1>3. j \in 1 .. n
  <2> HIDE DEF n
  <2> QED
    BY <1>1, <1>2
<1>4. /\ b \in Nat /\ pos = b + 1 /\ GoodAttribute(a, c.pool) /\ HasAttribute(w, b, a, c.pool)
      /\ Len(Inside(a)) \in Nat
      /\ w[b + 2] = Stated(a) /\ Stated(a) \in Nat
      /\ b + 1 <= Held(c) => (Class!IsCode => a.name = "Code")
  BY <1>3, AttributeHere
<1>5. /\ Held(c) \in Nat /\ Len(r) = Held(c) /\ \A k \in 1 .. Held(c) : r[k] = w[k]
  BY RestIs
<1>6. pos + 1 <= Held(c)
  BY <1>1, <1>5 DEF Class!Readable, Class!Rest
<1>7. b + 2 \in 1 .. Held(c) /\ b + 1 <= Held(c) /\ pos + 1 = b + 2
  <2> HIDE DEF b
  <2> QED
    BY <1>4, <1>5, <1>6
<1>8. a.name = "Code"
  BY <1>1, <1>4, <1>7
<1>9. Class!Used = Len(CodeText(a)) /\ Len(CodeText(a)) \in Nat
  BY <1>1, <1>4, <1>8, CodeParts
<1>10. r[pos + 1] = Stated(a)
  BY <1>4, <1>5, <1>7
<1>11. Len(Inside(a)) = Len(CodeText(a)) + a.slack /\ a.slack \in Nat
  <2>1. c.pool \in Seq(PoolTypes)
    BY JvmIs
  <2>2. a.name = "Code" => Len(Inside(a)) = Len(CodeText(a)) + a.slack
    BY <1>4, <2>1, InsideIs
  <2> QED
    BY <1>4, <1>8, <2>2 DEF GoodAttribute, Class!AttributeTypes
<1> DEFINE lt == Len(CodeText(a))
           li == Len(Inside(a))
           st == Stated(a)
<1>12. st = li - IF a.short THEN 1 ELSE 0
  BY DEF Stated
<1>13. lt \in Nat /\ li \in Nat /\ li = lt + a.slack /\ lt > st
  BY <1>1, <1>4, <1>9, <1>10, <1>11
<1> HIDE DEF lt, li, st
<1>14. a.short
  BY <1>11, <1>12, <1>13
<1>15. ~Class!Sound(c)
  <2>1. i \in DOMAIN c.methods
    <3>1. c.methods \in Seq(Class!MemberTypes)
      BY DEF Jvms, Class!Compiled
    <3> QED
      BY <3>1
  <2>2. DOMAIN m.attributes = 1 .. n
    <3>1. m \in Class!MemberTypes
      <4>1. c.methods \in Seq(Class!MemberTypes)
        BY DEF Jvms, Class!Compiled
      <4> QED
        BY <4>1, ElementOfSeq
    <3>2. m.attributes \in Seq(Class!AttributeTypes)
      BY <3>1 DEF Class!MemberTypes
    <3> QED
      BY <3>2
  <2> QED
    BY <1>3, <1>14, <2>1, <2>2 DEF Class!Sound
<1> DEFINE e == "length"
<1>16. e \notin {"pool", "members", "done"}
  OBVIOUS
<1>17. Class!Fail(e)
  BY DEF Class!LengthMismatch
<1> HIDE DEF e
<1> QED
  BY <1>15, <1>16, <1>17, JvmFails

LEMMA MethodEnds ==
  ASSUME NEW c \in Jvms, input = Given(c), IsOut, NEW i \in 1 .. Len(c.methods),
         NEW j \in 1 .. Len(c.methods[i].attributes) + 1, AtAttribute(c, i, j), Class!EndOfMethod
  PROVE  /\ i + 1 \in 1 .. Len(c.methods) + 1 /\ AtMethod(c, i + 1)' /\ IsOut' /\ input' = input
<1> DEFINE m == c.methods[i]
           n == Len(m.attributes)
           nm == Len(c.methods)
<1>1. /\ Class!Top.left = 0 /\ stack' = Class!Front(stack)
      /\ input' = input /\ pos' = pos /\ out' = out /\ status' = status
  BY DEF Class!EndOfMethod, Class!Done
<1>2. /\ Class!Top.left = n + 1 - j /\ n \in Nat
      /\ Class!Front(stack) = <<[in |-> "methods", left |-> nm - i]>>
  BY AttributeLoop
<1>3. j = n + 1
  <2> HIDE DEF n
  <2> QED
    BY <1>1, <1>2
<1>4. nm \in Nat
  BY MethodsStand
<1>5. i + 1 \in 1 .. nm + 1 /\ nm + 1 - (i + 1) = nm - i
  <2> HIDE DEF nm
  <2>1. i \in 1 .. nm
    BY DEF nm
  <2> QED
    BY <1>4, <2>1
<1>6. /\ status = "members" /\ HeadRead(c) /\ FieldsRead(c, Len(c.fields)) /\ MethodsRead(c, i, i - 1)
      /\ MethodSoFar(out.methods[i], m, j - 1) /\ pos = AttributeStart(c, i, j) + 1
  BY DEF AtAttribute
<1>7. pos' = MethodStart(c, i + 1) + 1
  BY <1>1, <1>3, <1>6, AttributesStand
<1>8. MethodsRead(c, i, i)
  <2> DEFINE k == j - 1
  <2>1. k = n
    <3> HIDE DEF n
    <3> QED
      BY <1>2, <1>3
  <2> HIDE DEF k
  <2>2. MethodSoFar(out.methods[i], m, n)
    BY <1>6, <2>1 DEF k
  <2>3. \A x \in 1 .. i : x = i \/ x \in 1 .. i - 1
    OBVIOUS
  <2> QED
    BY <1>6, <2>2, <2>3 DEF MethodsRead
<1>9. MethodsRead(c, (i + 1) - 1, (i + 1) - 1)'
  <2> DEFINE k == (i + 1) - 1
  <2>1. k = i
    OBVIOUS
  <2> HIDE DEF k
  <2>2. MethodsRead(c, k, k)
    BY <1>8, <2>1
  <2>3. MethodsRead(c, k, k)'
    BY <1>1, <2>2 DEF MethodsRead
  <2> QED
    BY <2>3 DEF k
<1>10. HeadRead(c)' /\ FieldsRead(c, Len(c.fields))' /\ IsOut'
  BY <1>1, <1>6 DEF HeadRead, AllRead, FieldsRead, IsOut
<1>11. stack' = <<[in |-> "methods", left |-> nm + 1 - (i + 1)]>>
  BY <1>1, <1>2, <1>5
<1>12. AtMethod(c, i + 1)'
  BY <1>1, <1>6, <1>7, <1>9, <1>10, <1>11 DEF AtMethod
<1> QED
  BY <1>1, <1>5, <1>10, <1>12

LEMMA AttributesTruncated ==
  ASSUME NEW c \in Jvms, input = Given(c), IsOut, NEW i \in 1 .. Len(c.methods),
         NEW j \in 1 .. Len(c.methods[i].attributes) + 1, AtAttribute(c, i, j), Class!Truncated
  PROVE  IsOut' /\ Refused(c)' /\ input' = input
<1> DEFINE m == c.methods[i]
           n == Len(m.attributes)
           a == m.attributes[j]
           b == AttributeStart(c, i, j)
           w == Class!Written(c)
           r == input.rest
<1>1. status = "members"
  BY DEF AtAttribute
<1>2. Class!Top.in = "attributes" /\ Class!Top.left = n + 1 - j /\ n \in Nat
  BY AttributeLoop
<1>3. /\ Class!Top.left > 0
      /\ \/ ~Class!Readable(pos + 1)
         \/ Class!Readable(pos + 1) /\ ~Class!IsCode /\ Class!Sought(pos + 2 + r[pos + 1]) = Class!Beyond
         \/ Class!Readable(pos + 1) /\ Class!IsCode /\ ~CodeHeld
         \/ Class!Readable(pos + 1) /\ Class!IsCode /\ Class!Sought(pos + 2 + r[pos + 1]) = Class!Beyond
  BY <1>1, <1>2 DEF Class!Truncated, Class!In, Class!Done, Class!CodeFits, CodeHeld, Class!Rest, Class!CodeStart
<1>4. j \in 1 .. n
  <2> HIDE DEF n
  <2> QED
    BY <1>2, <1>3
<1>5. /\ b \in Nat /\ pos = b + 1 /\ GoodAttribute(a, c.pool) /\ HasAttribute(w, b, a, c.pool)
      /\ Len(Inside(a)) \in Nat /\ w[b + 2] = Stated(a) /\ Stated(a) \in Nat
      /\ b + 2 + Len(Inside(a)) <= Len(w)
      /\ b + 1 <= Held(c) => (Class!IsCode => a.name = "Code")
  BY <1>4, AttributeHere
<1>6. c.cut # 0
  <2> SUFFICES ASSUME c.cut = 0 PROVE FALSE
    OBVIOUS
  <2>1. /\ Held(c) = Len(w) /\ Held(c) \in Nat /\ Len(r) = Held(c) /\ \A k \in 1 .. Held(c) : r[k] = w[k]
    BY RestIs
  <2> DEFINE st == Stated(a)
             li == Len(Inside(a))
  <2>2. st = li - IF a.short THEN 1 ELSE 0
    BY DEF Stated
  <2>3. st <= li /\ st \in Nat /\ li \in Nat /\ b + 2 + li <= Held(c)
    BY <1>5, <2>1, <2>2
  <2>4. CodeHeld \/ ~Class!IsCode
    <3>1. a.name = "Code" => CodeHeld
      BY <1>5, CodeParts
    <3>2. b + 1 <= Held(c)
      <4> HIDE DEF b, li
      <4> QED
        BY <1>5, <2>1, <2>3
    <3> QED
      BY <1>5, <3>1, <3>2
  <2>5. pos + 1 = b + 2 /\ b + 2 \in 1 .. Held(c) /\ pos + 2 = b + 3
    <3> HIDE DEF b, li
    <3> QED
      BY <1>5, <2>1, <2>3
  <2>6. Class!Readable(pos + 1) /\ r[pos + 1] = st
    BY <1>5, <2>1, <2>5 DEF Class!Readable, Class!Rest
  <2>7. Class!Sought(b + 3 + st) # Class!Beyond
    <3> HIDE DEF b, li, st
    <3>1. b + 3 + st \in Nat /\ b + 3 + st <= Held(c) + 1
      BY <1>5, <2>1, <2>3
    <3> QED
      BY <2>1, <3>1 DEF Class!Sought, Class!Beyond, Class!Rest
  <2>8. Class!Sought(pos + 2 + r[pos + 1]) # Class!Beyond
    BY <2>5, <2>6, <2>7
  <2> QED
    BY <1>3, <2>4, <2>6, <2>8
<1>7. ~Class!Sound(c)
  BY <1>6 DEF Class!Sound
<1> DEFINE e == "end"
<1>8. e \notin {"pool", "members", "done"}
  OBVIOUS
<1>9. Class!Fail(e)
  BY DEF Class!Truncated
<1> HIDE DEF e
<1> QED
  BY <1>7, <1>8, <1>9, JvmFails

-----------------------------------------------------------------------------
\* What is read of a class is what the part passed states, and who is refused is unsound.
ClassInv ==
  \E c \in Jvms :
    /\ input = Given(c) /\ IsOut
    /\ \/ InPool(c)
       \/ \E i \in 1 .. Len(c.fields) + 1 : AtField(c, i)
       \/ \E i \in 1 .. Len(c.methods) + 1 : AtMethod(c, i)
       \/ \E i \in 1 .. Len(c.methods) : \E j \in 1 .. Len(c.methods[i].attributes) + 1 : AtAttribute(c, i, j)
       \/ WholeClass(c)
       \/ Refused(c)

LEMMA JvmInit ==
  ASSUME Class!ClassesAssumption, Class!Init
  PROVE  ClassInv
<1>1. PICK c \in Classes : input = Given(c)
  BY DEF Class!Init, Given, Held, Kept
<1>2. c \in Jvms
  BY DEF Jvms, Class!ClassesAssumption
<1> DEFINE slot == Class!NumbersOf(c.pool)
           read == <<Class!Empty>>
           none == <<>>
<1>3. /\ out = [pool |-> read, interfaces |-> none, fields |-> none, methods |-> none]
      /\ pos = 1 /\ stack = none /\ status = "pool"
  BY DEF Class!Init
<1>4. Class!Empty \in Entries
  <2> DEFINE k == "empty"
             t == ""
  <2>1. k \in Kinds /\ t \in Texts
    BY DEF Kinds, Texts
  <2> HIDE DEF k, t
  <2>2. [kind |-> k, text |-> t, name |-> 0] \in Entries
    BY <2>1 DEF Entries
  <2> QED
    BY <2>2 DEF Class!Empty, k, t
<1>5. PoolRead(read, c, 0)
  <2>1. read \in Seq(Entries) /\ Len(read) = 1
    BY <1>4
  <2>2. slot[1] = 1
    BY <1>2, SlotsAre
  <2> HIDE DEF read, slot
  <2>3. Len(read) = slot[0 + 1] /\ \A i \in 1 .. 0 : FALSE
    BY <2>1, <2>2
  <2> QED
    BY <2>1, <2>3 DEF PoolRead, slot
<1> HIDE DEF read
<1>6. IsOut /\ out.pool = read /\ out.interfaces = <<>> /\ out.fields = <<>> /\ out.methods = <<>>
  BY <1>3 DEF IsOut
<1>7. Len(c.pool) \in Nat
  BY <1>2, SlotsAre
<1>8. InPool(c)
  <2> DEFINE k == 0
  <2>1. k \in 0 .. Len(c.pool) /\ pos = k + 1 /\ PoolRead(out.pool, c, k)
    BY <1>3, <1>5, <1>6, <1>7
  <2> HIDE DEF k
  <2> QED
    BY <1>3, <1>6, <2>1 DEF InPool
<1> QED
  BY <1>1, <1>2, <1>6, <1>8 DEF ClassInv

\* The steps that are possible where the reader is.
LEMMA PoolSteps ==
  ASSUME NEW c \in Jvms, input = Given(c), IsOut, InPool(c), Class!Next
  PROVE  (InPool(c) \/ AtField(c, 1) \/ Refused(c))' /\ IsOut' /\ input' = input
<1>1. status = "pool"
  BY DEF InPool
<1>2. \/ Class!ReadEntry \/ Class!UnknownTag \/ Class!PoolTooLong \/ Class!ReadHeader \/ Class!NotAClass
      \/ Class!Truncated
  BY <1>1 DEF Class!Next, Class!ReadField, Class!EndOfFields, Class!ReadMethod, Class!SkipAttribute,
              Class!ReadCode, Class!CodeFits, Class!LengthMismatch, Class!EndOfMethod, Class!EndOfClass, Class!In, Class!Done
<1> QED
  BY <1>2, EntryReads, TagFails, CountFails, HeaderReads, NameFails, PoolTruncated

LEMMA MemberSteps ==
  ASSUME NEW loop, status = "members", Class!Top.in = loop, Class!Next
  PROVE  /\ loop = "fields" => Class!ReadField \/ Class!EndOfFields \/ Class!Truncated
         /\ loop = "methods" => Class!ReadMethod \/ Class!EndOfClass \/ Class!Truncated
         /\ loop = "attributes" => \/ Class!SkipAttribute \/ Class!ReadCode \/ Class!LengthMismatch
                                   \/ Class!EndOfMethod \/ Class!Truncated
BY DEF Class!Next, Class!ReadEntry, Class!UnknownTag, Class!PoolTooLong, Class!ReadHeader, Class!NotAClass,
       Class!ReadField, Class!EndOfFields, Class!ReadMethod, Class!SkipAttribute,
       Class!ReadCode, Class!CodeFits, Class!LengthMismatch, Class!EndOfMethod, Class!EndOfClass, Class!In, Class!Done

LEMMA NoSteps ==
  ASSUME status \notin {"pool", "members"}, Class!Next
  PROVE  FALSE
BY DEF Class!Next, Class!ReadEntry, Class!UnknownTag, Class!PoolTooLong, Class!ReadHeader, Class!NotAClass,
       Class!ReadField, Class!EndOfFields, Class!ReadMethod, Class!SkipAttribute, Class!Truncated,
       Class!ReadCode, Class!CodeFits, Class!LengthMismatch, Class!EndOfMethod, Class!EndOfClass, Class!In, Class!Done

LEMMA JvmSteps ==
  ASSUME ClassInv, [Class!Next]_(Class!vars)
  PROVE  ClassInv'
<1>1. PICK c \in Jvms :
        /\ input = Given(c) /\ IsOut
        /\ \/ InPool(c)
           \/ \E i \in 1 .. Len(c.fields) + 1 : AtField(c, i)
           \/ \E i \in 1 .. Len(c.methods) + 1 : AtMethod(c, i)
           \/ \E i \in 1 .. Len(c.methods) : \E j \in 1 .. Len(c.methods[i].attributes) + 1 : AtAttribute(c, i, j)
           \/ WholeClass(c)
           \/ Refused(c)
  BY DEF ClassInv
<1>2. Len(c.fields) \in Nat /\ Len(c.methods) \in Nat
  BY FieldsStand, MethodsStand
<1>3. (input = Given(c))' <=> input' = Given(c)
  OBVIOUS
<1>4. CASE InPool(c) /\ Class!Next
  <2>1. (InPool(c) \/ AtField(c, 1) \/ Refused(c))' /\ IsOut' /\ input' = input
    BY <1>1, <1>4, PoolSteps
  <2>2. 1 \in 1 .. Len(c.fields) + 1
    BY <1>2
  <2>3. (\E i \in 1 .. Len(c.fields) + 1 : AtField(c, i))' \/ InPool(c)' \/ Refused(c)'
    BY <2>1, <2>2
  <2> QED
    BY <1>1, <2>1, <2>3 DEF ClassInv
<1>5. ASSUME NEW i \in 1 .. Len(c.fields) + 1, AtField(c, i), Class!Next
      PROVE  ClassInv'
  <2>1. Class!Top.in = "fields" /\ status = "members"
    BY <1>5, FieldLoop DEF AtField
  <2>2. Class!ReadField \/ Class!EndOfFields \/ Class!Truncated
    BY <1>5, <2>1, MemberSteps
  <2>3. CASE Class!ReadField
    <3>1. i \in 1 .. Len(c.fields) /\ AtField(c, i + 1)' /\ IsOut' /\ input' = input
      BY <1>1, <1>5, <2>3, FieldReads
    <3>2. i + 1 \in 1 .. Len(c.fields) + 1
      BY <1>2, <3>1
    <3>3. (\E k \in 1 .. Len(c.fields) + 1 : AtField(c, k))'
      BY <3>1, <3>2
    <3> QED
      BY <1>1, <3>1, <3>3 DEF ClassInv
  <2>4. CASE Class!EndOfFields
    <3>1. AtMethod(c, 1)' /\ IsOut' /\ input' = input
      BY <1>1, <1>5, <2>4, FieldsEnd
    <3>2. 1 \in 1 .. Len(c.methods) + 1
      BY <1>2
    <3>3. (\E k \in 1 .. Len(c.methods) + 1 : AtMethod(c, k))'
      BY <3>1, <3>2
    <3> QED
      BY <1>1, <3>1, <3>3 DEF ClassInv
  <2>5. CASE Class!Truncated
    <3>1. IsOut' /\ Refused(c)' /\ input' = input
      BY <1>1, <1>5, <2>5, FieldsTruncated
    <3> QED
      BY <1>1, <3>1 DEF ClassInv
  <2> QED
    BY <2>2, <2>3, <2>4, <2>5
<1>6. ASSUME NEW i \in 1 .. Len(c.methods) + 1, AtMethod(c, i), Class!Next
      PROVE  ClassInv'
  <2>1. Class!Top.in = "methods" /\ status = "members"
    BY <1>6, MethodLoop DEF AtMethod
  <2>2. Class!ReadMethod \/ Class!EndOfClass \/ Class!Truncated
    BY <1>6, <2>1, MemberSteps
  <2>3. CASE Class!ReadMethod
    <3>1. i \in 1 .. Len(c.methods) /\ AtAttribute(c, i, 1)' /\ IsOut' /\ input' = input
      BY <1>1, <1>6, <2>3, MethodReads
    <3>2. 1 \in 1 .. Len(c.methods[i].attributes) + 1
      BY <3>1, AttributesStand
    <3>3. (\E k \in 1 .. Len(c.methods) : \E j \in 1 .. Len(c.methods[k].attributes) + 1 : AtAttribute(c, k, j))'
      BY <3>1, <3>2
    <3> QED
      BY <1>1, <3>1, <3>3 DEF ClassInv
  <2>4. CASE Class!EndOfClass
    <3>1. WholeClass(c)' /\ IsOut' /\ input' = input
      BY <1>1, <1>6, <2>4, ClassReads
    <3> QED
      BY <1>1, <3>1 DEF ClassInv
  <2>5. CASE Class!Truncated
    <3>1. IsOut' /\ Refused(c)' /\ input' = input
      BY <1>1, <1>6, <2>5, MethodsTruncated
    <3> QED
      BY <1>1, <3>1 DEF ClassInv
  <2> QED
    BY <2>2, <2>3, <2>4, <2>5
<1>7. ASSUME NEW i \in 1 .. Len(c.methods), NEW j \in 1 .. Len(c.methods[i].attributes) + 1,
             AtAttribute(c, i, j), Class!Next
      PROVE  ClassInv'
  <2>1. Class!Top.in = "attributes" /\ status = "members"
    BY <1>7, AttributeLoop DEF AtAttribute
  <2>2. \/ Class!SkipAttribute \/ Class!ReadCode \/ Class!LengthMismatch \/ Class!EndOfMethod
        \/ Class!Truncated
    BY <1>7, <2>1, MemberSteps
  <2>3. CASE Class!SkipAttribute \/ Class!ReadCode
    <3>1. /\ j \in 1 .. Len(c.methods[i].attributes) /\ AtAttribute(c, i, j + 1)'
          /\ IsOut' /\ input' = input
      BY <1>1, <1>7, <2>3, AttributeSkips, CodeReads
    <3>2. j + 1 \in 1 .. Len(c.methods[i].attributes) + 1
      <4>1. Len(c.methods[i].attributes) \in Nat
        BY AttributesStand
      <4> QED
        BY <3>1, <4>1
    <3>3. (\E k \in 1 .. Len(c.methods) : \E l \in 1 .. Len(c.methods[k].attributes) + 1 : AtAttribute(c, k, l))'
      BY <3>1, <3>2
    <3> QED
      BY <1>1, <3>1, <3>3 DEF ClassInv
  <2>4. CASE Class!EndOfMethod
    <3>1. i + 1 \in 1 .. Len(c.methods) + 1 /\ AtMethod(c, i + 1)' /\ IsOut' /\ input' = input
      BY <1>1, <1>7, <2>4, MethodEnds
    <3>2. (\E k \in 1 .. Len(c.methods) + 1 : AtMethod(c, k))'
      BY <3>1
    <3> QED
      BY <1>1, <3>1, <3>2 DEF ClassInv
  <2>5. CASE Class!LengthMismatch \/ Class!Truncated
    <3>1. IsOut' /\ Refused(c)' /\ input' = input
      BY <1>1, <1>7, <2>5, LengthFails, AttributesTruncated
    <3> QED
      BY <1>1, <3>1 DEF ClassInv
  <2> QED
    BY <2>2, <2>3, <2>4, <2>5
<1>8. CASE (WholeClass(c) \/ Refused(c)) /\ Class!Next
  <2>1. status \notin {"pool", "members"}
    BY <1>8 DEF WholeClass, Refused
  <2> QED
    BY <1>8, <2>1, NoSteps
<1>9. CASE UNCHANGED Class!vars
  <2>1. input' = input /\ pos' = pos /\ stack' = stack /\ out' = out /\ status' = status
    BY <1>9 DEF Class!vars
  <2>2. /\ IsOut' /\ InPool(c)' = InPool(c) /\ WholeClass(c)' = WholeClass(c) /\ Refused(c)' = Refused(c)
        /\ \A i : AtField(c, i)' = AtField(c, i) /\ AtMethod(c, i)' = AtMethod(c, i)
        /\ \A i, j : AtAttribute(c, i, j)' = AtAttribute(c, i, j)
    BY <1>1, <2>1 DEF IsOut, InPool, WholeClass, Refused, AtField, AtMethod, AtAttribute, HeadRead, AllRead,
                      FieldsRead, MethodsRead
  <2> QED
    BY <1>1, <2>1, <2>2 DEF ClassInv
<1> QED
  BY <1>1, <1>4, <1>5, <1>6, <1>7, <1>8, <1>9

LEMMA BodyRead ==
  ASSUME NEW m, m.attributes \in Seq(Class!AttributeTypes), NEW read, MethodSoFar(read, m, Len(m.attributes))
  PROVE  /\ read.name = m.name /\ read.code = Class!BodyOf(m)
         /\ \A j \in DOMAIN m.attributes : ~m.attributes[j].short
<1> DEFINE n == Len(m.attributes)
           d == "Code"
           codes == {j \in DOMAIN m.attributes : m.attributes[j].name = d}
           k == CHOOSE j \in codes : TRUE
<1>1. DOMAIN m.attributes = 1 .. n
  OBVIOUS
<1>2. /\ read.name = m.name
      /\ \A j \in 1 .. n : ~m.attributes[j].short /\ (m.attributes[j].name = d => read.code = m.attributes[j].code)
      /\ (\A j \in 1 .. n : m.attributes[j].name # d) => read.code = <<>>
  BY DEF MethodSoFar
<1>3. Class!BodyOf(m) = IF codes = {} THEN <<>> ELSE m.attributes[k].code
  BY DEF Class!BodyOf
<1> HIDE DEF d, n
<1>4. CASE codes = {}
  <2>1. \A j \in 1 .. n : m.attributes[j].name # d
    BY <1>1, <1>4
  <2> HIDE DEF codes, k
  <2>2. read.code = <<>> /\ Class!BodyOf(m) = <<>>
    BY <1>2, <1>3, <1>4, <2>1
  <2> QED
    BY <1>1, <1>2, <2>2
<1>5. CASE codes # {}
  <2>1. \E j \in codes : TRUE
    BY <1>5
  <2>2. k \in codes
    <3> HIDE DEF codes
    <3> QED
      BY <2>1
  <2> HIDE DEF k
  <2>3. k \in 1 .. n /\ m.attributes[k].name = d
    BY <1>1, <2>2
  <2> HIDE DEF codes
  <2>4. Class!BodyOf(m) = m.attributes[k].code /\ read.code = m.attributes[k].code
    BY <1>2, <1>3, <1>5, <2>3
  <2> QED
    BY <1>1, <1>2, <2>4
<1> QED
  BY <1>4, <1>5

LEMMA WholeShows ==
  ASSUME NEW c \in Jvms, WholeClass(c)
  PROVE  /\ Class!Sound(c) /\ out.interfaces = c.interfaces
         /\ out.fields = Class!NamesIn(c.fields)
         /\ Class!NamesIn(out.methods) = Class!NamesIn(c.methods)
         /\ \A i \in DOMAIN out.methods : out.methods[i].code = Class!BodyOf(c.methods[i])
<1> DEFINE nf == Len(c.fields)
           nm == Len(c.methods)
<1>1. /\ c.fields \in Seq(Class!MemberTypes) /\ c.methods \in Seq(Class!MemberTypes)
      /\ c.pool \in Seq(PoolTypes)
  <2>1. c.fields \in Seq(Class!MemberTypes) /\ c.methods \in Seq(Class!MemberTypes)
    BY DEF Jvms, Class!Compiled
  <2> QED
    BY <2>1, JvmIs
<1>2. /\ DOMAIN c.fields = 1 .. nf /\ DOMAIN c.methods = 1 .. nm /\ DOMAIN c.pool = 1 .. Len(c.pool)
      /\ nm \in Nat
  BY <1>1
<1>3. /\ c.cut = 0 /\ c.torn = 0 /\ c.this.kind = "class" /\ out.interfaces = c.interfaces
      /\ \A k \in 1 .. Len(c.pool) : c.pool[k].kind # "unknown"
  BY DEF WholeClass, HeadRead, AllRead, PoolRead
<1>4. out.fields \in Seq(STRING) /\ Len(out.fields) = nf /\ \A x \in 1 .. nf : out.fields[x] = c.fields[x].name
  BY DEF WholeClass, FieldsRead
<1>5. /\ out.methods \in Seq(MethodRecords) /\ Len(out.methods) = nm
      /\ \A x \in 1 .. nm : MethodSoFar(out.methods[x], c.methods[x], Len(c.methods[x].attributes))
  BY DEF WholeClass, MethodsRead
<1> HIDE DEF nf, nm
<1>6. ASSUME NEW i \in 1 .. nm
      PROVE  /\ out.methods[i].name = c.methods[i].name /\ out.methods[i].code = Class!BodyOf(c.methods[i])
             /\ \A j \in DOMAIN c.methods[i].attributes : ~c.methods[i].attributes[j].short
  <2> DEFINE m == c.methods[i]
  <2>1. m.attributes \in Seq(Class!AttributeTypes)
    <3>1. m \in Class!MemberTypes
      BY <1>1, ElementOfSeq DEF nm
    <3> QED
      BY <3>1 DEF Class!MemberTypes
  <2>2. MethodSoFar(out.methods[i], m, Len(m.attributes))
    BY <1>5
  <2> HIDE DEF m
  <2>3. /\ out.methods[i].name = m.name /\ out.methods[i].code = Class!BodyOf(m)
        /\ \A j \in DOMAIN m.attributes : ~m.attributes[j].short
    BY <2>1, <2>2, BodyRead
  <2> QED
    BY <2>3 DEF m
<1>7. Class!Sound(c)
  BY <1>2, <1>3, <1>6 DEF Class!Sound
<1>8. out.fields = Class!NamesIn(c.fields)
  <2> DEFINE f == out.fields
             g == [i \in DOMAIN c.fields |-> c.fields[i].name]
  <2>1. f = [i \in 1 .. nf |-> f[i]]
    BY <1>4
  <2>2. f = g
    BY <1>2, <1>4, <2>1
  <2> QED
    BY <2>2 DEF Class!NamesIn
<1>9. DOMAIN out.methods = 1 .. nm
  BY <1>5
<1>10. Class!NamesIn(out.methods) = Class!NamesIn(c.methods)
  <2>1. [i \in DOMAIN out.methods |-> out.methods[i].name] = [i \in DOMAIN c.methods |-> c.methods[i].name]
    BY <1>2, <1>6, <1>9
  <2> QED
    BY <2>1 DEF Class!NamesIn
<1> QED
  BY <1>3, <1>6, <1>7, <1>8, <1>9, <1>10

LEMMA JvmShows ==
  ASSUME ClassInv
  PROVE  Class!ClassReadsBack
<1>1. PICK c \in Jvms :
        /\ input = Given(c)
        /\ \/ status \in {"pool", "members"}
           \/ WholeClass(c)
           \/ Refused(c)
  BY DEF ClassInv, InPool, AtField, AtMethod, AtAttribute
<1>2. input.class = c
  BY <1>1 DEF Given
<1>3. CASE status \in {"pool", "members"}
  BY <1>3 DEF Class!ClassReadsBack, Class!Ended
<1>4. CASE WholeClass(c)
  <2>1. status = "done"
    BY <1>4 DEF WholeClass
  <2> QED
    BY <1>2, <1>4, <2>1, WholeShows DEF Class!ClassReadsBack
<1>5. CASE Refused(c)
  <2>1. status # "done" /\ ~Class!Sound(c)
    BY <1>5 DEF Refused
  <2> QED
    BY <1>2, <2>1 DEF Class!ClassReadsBack
<1> QED
  BY <1>1, <1>3, <1>4, <1>5

-----------------------------------------------------------------------------
(***************************************************************************)
(* Archive: what was read before pos is in the output, or on the stack.    *)
(***************************************************************************)

\* safe_name keeps parts of the name, and none that climbs.
LEMMA SafeNameIs ==
  ASSUME NEW name \in Seq(STRING)
  PROVE  Jar!SafeName(name) \in Seq(Jar!Part)
<1> DEFINE N == Len(name)
           After(n, before) == IF name[n] \in Jar!Climbing THEN before ELSE Append(before, name[n])
           F(kept) == [n \in 0 .. N |-> IF n = 0 THEN <<>> ELSE After(n, kept[n - 1])]
           step == [p \in Nat \X Seq(Jar!Part) |-> IF p[1] \in 1 .. N THEN After(p[1], p[2]) ELSE p[2]]
           names == CHOOSE kept : kept = F(kept)
<1>1. N \in Nat /\ \A n \in 1 .. N : name[n] \in STRING
  OBVIOUS
<1>2. ASSUME NEW n \in 1 .. N, NEW before \in Seq(Jar!Part)
      PROVE  After(n, before) \in Seq(Jar!Part)
  <2>1. CASE name[n] \in Jar!Climbing
    BY <2>1
  <2>2. CASE name[n] \notin Jar!Climbing
    <3>1. name[n] \in Jar!Part
      BY <1>1, <2>2 DEF Jar!Part
    <3> QED
      BY <2>2, <3>1
  <2> QED
    BY <2>1, <2>2
<1> HIDE DEF After
<1>3. step \in [Nat \X Seq(Jar!Part) -> Seq(Jar!Part)]
  <2>1. ASSUME NEW p \in Nat \X Seq(Jar!Part)
        PROVE  (IF p[1] \in 1 .. N THEN After(p[1], p[2]) ELSE p[2]) \in Seq(Jar!Part)
    BY <1>2
  <2> QED
    BY <2>1
<1>4. <<>> \in Seq(Jar!Part)
  OBVIOUS
<1> HIDE DEF step
<1>5. PICK f \in [0 .. N -> Seq(Jar!Part)] : f[0] = <<>> /\ \A n \in 1 .. N : f[n] = step[<<n, f[n - 1]>>]
  <2>1. \E f : IsRun(f, Seq(Jar!Part), <<>>, step, N)
    BY <1>1, <1>3, <1>4, Iterated
  <2> QED
    BY <2>1 DEF IsRun
<1>6. ASSUME NEW n \in 1 .. N
      PROVE  f[n] = After(n, f[n - 1])
  <2>1. n - 1 \in 0 .. N /\ n \in Nat
    BY <1>1
  <2>2. f[n - 1] \in Seq(Jar!Part) /\ <<n, f[n - 1]>> \in Nat \X Seq(Jar!Part)
    BY <2>1
  <2>3. step[<<n, f[n - 1]>>] = After(n, f[n - 1])
    BY <2>2 DEF step
  <2> QED
    BY <1>5, <2>3
<1>7. f = F(f)
  <2>1. ASSUME NEW n \in 0 .. N
        PROVE  f[n] = IF n = 0 THEN <<>> ELSE After(n, f[n - 1])
    <3>1. CASE n = 0
      BY <1>5, <3>1
    <3>2. CASE n # 0
      <4>1. n \in 1 .. N
        BY <1>1, <3>2
      <4> QED
        BY <1>6, <3>2, <4>1
    <3> QED
      BY <3>1, <3>2
  <2> QED
    BY <2>1
<1>8. Jar!SafeName(name) = names[N]
  BY DEF Jar!SafeName, After
<1>9. names = F(names)
  <2> HIDE DEF F
  <2> QED
    BY <1>7
<1> HIDE DEF names
<1>10. \A n \in 0 .. N : names[n] = IF n = 0 THEN <<>> ELSE After(n, names[n - 1])
  BY <1>9
<1> DEFINE S == {k \in Nat : k \in 0 .. N => names[k] \in Seq(Jar!Part)}
<1>11. S \in SUBSET Nat /\ 0 \in S
  BY <1>1, <1>4, <1>10
<1>12. ASSUME NEW k \in S PROVE k + 1 \in S
  <2>1. CASE k + 1 \in 0 .. N
    <3>1. k + 1 \in 1 .. N /\ k \in 0 .. N /\ (k + 1) - 1 = k /\ k + 1 # 0
      BY <1>1, <2>1
    <3>2. names[k] \in Seq(Jar!Part)
      BY <3>1
    <3>3. names[k + 1] = After(k + 1, names[k])
      BY <1>10, <2>1, <3>1
    <3> QED
      BY <1>2, <3>1, <3>2, <3>3
  <2> QED
    BY <2>1
<1>13. \A n \in Nat : n \in S
  <2> HIDE DEF S
  <2> QED
    BY <1>11, <1>12, Induction
<1> QED
  BY <1>1, <1>8, <1>13

\* What the members expand to is summed one by one.
LEMMA SizesAre ==
  ASSUME input.members \in Seq(Jar!Members)
  PROVE  /\ Jar!Sizes[0] = 0
         /\ \A n \in 0 .. Len(input.members) : Jar!Sizes[n] \in Nat
         /\ \A n \in 1 .. Len(input.members) :
              Jar!Sizes[n] = Jar!Sizes[n - 1] + (IF Jar!Selected(input.members[n]) THEN input.members[n].size ELSE 0)
<1> DEFINE N == Len(input.members)
           Size(n) == IF Jar!Selected(input.members[n]) THEN input.members[n].size ELSE 0
           After(n, before) == before + Size(n)
           F(total) == [n \in 0 .. N |-> IF n = 0 THEN 0 ELSE After(n, total[n - 1])]
           step == [p \in Nat \X Nat |-> IF p[1] \in 1 .. N THEN After(p[1], p[2]) ELSE p[2]]
           sizes == Jar!Sizes
<1>1. N \in Nat /\ \A n \in 1 .. N : Size(n) \in Nat
  <2>1. N \in Nat /\ \A n \in 1 .. N : input.members[n] \in Jar!Members
    OBVIOUS
  <2>2. \A n \in 1 .. N : input.members[n].size \in Nat
    BY <2>1 DEF Jar!Members
  <2> QED
    BY <2>1, <2>2
<1> HIDE DEF Size
<1>2. ASSUME NEW n \in 1 .. N, NEW before \in Nat
      PROVE  After(n, before) \in Nat
  BY <1>1
<1> HIDE DEF After
<1>3. step \in [Nat \X Nat -> Nat]
  <2>1. ASSUME NEW p \in Nat \X Nat
        PROVE  (IF p[1] \in 1 .. N THEN After(p[1], p[2]) ELSE p[2]) \in Nat
    BY <1>2
  <2> QED
    BY <2>1
<1> HIDE DEF step
<1>4. PICK f \in [0 .. N -> Nat] : f[0] = 0 /\ \A n \in 1 .. N : f[n] = step[<<n, f[n - 1]>>]
  <2>1. 0 \in Nat
    OBVIOUS
  <2>2. \E f : IsRun(f, Nat, 0, step, N)
    BY <1>1, <1>3, <2>1, Iterated
  <2> QED
    BY <2>2 DEF IsRun
<1>5. ASSUME NEW n \in 1 .. N
      PROVE  f[n] = After(n, f[n - 1])
  <2>1. n - 1 \in 0 .. N /\ n \in Nat
    BY <1>1
  <2>2. f[n - 1] \in Nat /\ <<n, f[n - 1]>> \in Nat \X Nat
    BY <2>1
  <2>3. step[<<n, f[n - 1]>>] = After(n, f[n - 1])
    BY <2>2 DEF step
  <2> QED
    BY <1>4, <2>3
<1>6. f = F(f)
  <2>1. ASSUME NEW n \in 0 .. N
        PROVE  f[n] = IF n = 0 THEN 0 ELSE After(n, f[n - 1])
    <3>1. CASE n = 0
      BY <1>4, <3>1
    <3>2. CASE n # 0
      <4>1. n \in 1 .. N
        BY <1>1, <3>2
      <4> QED
        BY <1>5, <3>2, <4>1
    <3> QED
      BY <3>1, <3>2
  <2> QED
    BY <2>1
<1>7. sizes = CHOOSE total : total = F(total)
  BY DEF Jar!Sizes, After, Size
<1>8. sizes = F(sizes)
  <2> HIDE DEF F, sizes
  <2> QED
    BY <1>6, <1>7
<1> HIDE DEF sizes
<1>9. \A n \in 0 .. N : sizes[n] = IF n = 0 THEN 0 ELSE After(n, sizes[n - 1])
  BY <1>8
<1> DEFINE S == {k \in Nat : k \in 0 .. N => sizes[k] \in Nat}
<1>10. S \in SUBSET Nat /\ 0 \in S
  BY <1>1, <1>9
<1>11. ASSUME NEW k \in S PROVE k + 1 \in S
  <2>1. CASE k + 1 \in 0 .. N
    <3>1. k + 1 \in 1 .. N /\ k \in 0 .. N /\ (k + 1) - 1 = k /\ k + 1 # 0
      BY <1>1, <2>1
    <3>2. sizes[k] \in Nat
      BY <3>1
    <3>3. sizes[k + 1] = After(k + 1, sizes[k])
      BY <1>9, <2>1, <3>1
    <3> QED
      BY <1>2, <3>1, <3>2, <3>3
  <2> QED
    BY <2>1
<1>12. \A n \in Nat : n \in S
  <2> HIDE DEF S
  <2> QED
    BY <1>10, <1>11, Induction
<1>13. 0 \in 0 .. N /\ \A n \in 1 .. N : n \in 0 .. N /\ n # 0
  BY <1>1
<1> QED
  BY <1>9, <1>12, <1>13 DEF sizes, After, Size

\* More members never expand to less.
LEMMA SizesGrow ==
  ASSUME input.members \in Seq(Jar!Members), NEW n \in 0 .. Len(input.members)
  PROVE  Jar!Sizes[n] <= Jar!Expanded
<1> DEFINE N == Len(input.members)
           S == {k \in Nat : k \in n .. N => Jar!Sizes[n] <= Jar!Sizes[k]}
<1>1. N \in Nat /\ n \in Nat
  OBVIOUS
<1>2. /\ \A k \in 0 .. N : Jar!Sizes[k] \in Nat
      /\ \A k \in 1 .. N : Jar!Sizes[k] = Jar!Sizes[k - 1] + (IF Jar!Selected(input.members[k]) THEN input.members[k].size ELSE 0)
  BY SizesAre
<1>3. \A k \in 1 .. N : input.members[k].size \in Nat
  <2>1. \A k \in 1 .. N : input.members[k] \in Jar!Members
    OBVIOUS
  <2> QED
    BY <2>1 DEF Jar!Members
<1>4. S \in SUBSET Nat /\ 0 \in S
  BY <1>1, <1>2
<1>5. ASSUME NEW k \in S PROVE k + 1 \in S
  <2>1. k \in Nat /\ (k \in n .. N => Jar!Sizes[n] <= Jar!Sizes[k])
    OBVIOUS
  <2>2. ASSUME k + 1 \in n .. N PROVE Jar!Sizes[n] <= Jar!Sizes[k + 1]
    <3>1. CASE k + 1 = n
      BY <1>1, <1>2, <3>1
    <3>2. CASE k + 1 # n
      <4>1. k \in n .. N /\ k + 1 \in 1 .. N /\ (k + 1) - 1 = k /\ k \in 0 .. N
        BY <1>1, <2>1, <2>2, <3>2
      <4>2. Jar!Sizes[k] <= Jar!Sizes[k + 1]
        BY <1>2, <1>3, <4>1
      <4>3. Jar!Sizes[n] \in Nat /\ Jar!Sizes[k] \in Nat /\ Jar!Sizes[k + 1] \in Nat
        BY <1>1, <1>2, <4>1
      <4> QED
        BY <2>1, <4>1, <4>2, <4>3
    <3> QED
      BY <3>1, <3>2
  <2> QED
    BY <2>1, <2>2
<1>6. N \in S
  <2> HIDE DEF S
  <2> QED
    BY <1>1, <1>4, <1>5, Induction
<1> QED
  BY <1>1, <1>6 DEF Jar!Expanded

Before(n) == {j \in Jar!Chosen : j < n}

ArchiveInv ==
  /\ input \in Archives
  /\ pos \in 1 .. Len(input.members) + 1
  /\ status \in {"opening", "reading", "done", "nothing", "entries", "member", "total", "damaged"}
  /\ status = "opening" => pos = 1
  /\ status \in {"reading", "done"} => Len(input.members) <= MaxMembers
  /\ \A i \in Before(pos) : input.members[i].size <= MaxMember /\ input.members[i].intact
  /\ Jar!Sizes[pos - 1] <= MaxTotal
  /\ status \in {"entries", "member", "total", "damaged"} =>
       \/ Len(input.members) > MaxMembers
       \/ pos <= Len(input.members) /\ Jar!Sizes[pos] > MaxTotal
       \/ pos \in Jar!Chosen /\ (input.members[pos].size > MaxMember \/ ~input.members[pos].intact)
  /\ status \in {"done", "nothing"} => pos > Len(input.members) /\ stack = <<>>
  /\ status = "nothing" => out = <<>>

Written == [path : Seq(Jar!Part), text : STRING \cup {"parse failed", "error"}]

\* What the output holds of the members before pos.
Output ==
  /\ out \in Seq(Written)
  /\ stack \in Seq(Jar!Members)
  /\ input.kind = "jar" =>
       /\ stack = <<>>
       /\ Len(out) = Cardinality(Before(pos))
       /\ \A i \in Before(pos) : out[Jar!Place(i)].path = Jar!OutputName(input.members[i])
  /\ input.kind = "apk" =>
       \A i \in Before(pos) :
         \/ \E k \in 1 .. Len(out) : \E l \in 1 .. Len(out[k].path) : out[k].path[l] = input.members[i].stem
         \/ \E k \in 1 .. Len(stack) : stack[k] = input.members[i]

LEMMA ArchiveInputs ==
  ASSUME Jar!ArchivesAssumption, input \in Archives
  PROVE  /\ MaxTotal \in Nat /\ input.kind \in {"jar", "apk"}
         /\ input.members \in Seq(Jar!Members) /\ Len(input.members) \in Nat
         /\ DOMAIN input.members = 1 .. Len(input.members)
         /\ \A i \in 1 .. Len(input.members) : input.members[i] \in Jar!Members
         /\ Jar!Chosen \subseteq 1 .. Len(input.members)
         /\ \A i \in 1 .. Len(input.members) : i \in Jar!Chosen <=> Jar!Selected(input.members[i])
<1>1. MaxTotal \in Nat /\ input.kind \in {"jar", "apk"} /\ input.members \in Seq(Jar!Members)
  BY DEF Jar!ArchivesAssumption
<1>2. /\ Len(input.members) \in Nat /\ DOMAIN input.members = 1 .. Len(input.members)
      /\ \A i \in 1 .. Len(input.members) : input.members[i] \in Jar!Members
  BY <1>1
<1> QED
  BY <1>1, <1>2 DEF Jar!Chosen

\* The cardinality that Archive knows is the one of the theorems about finite sets.
LEMMA SameCardinality == \A S : Jar!Cardinality(S) = Cardinality(S)
BY DEF Cardinality, Jar!Cardinality

\* How many were chosen before a member.
LEMMA Counting ==
  ASSUME Jar!ArchivesAssumption, input \in Archives, NEW n \in 1 .. Len(input.members) + 1
  PROVE  /\ IsFiniteSet(Before(n)) /\ Cardinality(Before(n)) \in Nat
         /\ n \in Jar!Chosen => /\ Before(n + 1) = Before(n) \cup {n}
                                /\ Cardinality(Before(n + 1)) = Cardinality(Before(n)) + 1
                                /\ Jar!Place(n) = Cardinality(Before(n)) + 1
         /\ n \notin Jar!Chosen => Before(n + 1) = Before(n)
         /\ \A i \in Before(n) : Jar!Place(i) \in 1 .. Cardinality(Before(n))
<1>1. /\ Jar!Chosen \subseteq 1 .. Len(input.members) /\ Len(input.members) \in Nat
  BY ArchiveInputs
<1>2. IsFiniteSet(1 .. Len(input.members))
  BY <1>1, FS_Interval
<1>3. \A j \in Jar!Chosen : j \in Nat
  BY <1>1
<1>4. Before(n) \subseteq 1 .. Len(input.members) /\ n \notin Before(n)
  <2>1. Before(n) \subseteq Jar!Chosen
    BY DEF Before
  <2>2. n \notin Before(n)
    BY DEF Before
  <2> QED
    BY <1>1, <2>1, <2>2
<1>5. IsFiniteSet(Before(n)) /\ Cardinality(Before(n)) \in Nat
  BY <1>2, <1>4, FS_Subset, FS_CardinalityType
<1>6. ASSUME n \in Jar!Chosen
      PROVE  /\ Before(n + 1) = Before(n) \cup {n}
             /\ Cardinality(Before(n + 1)) = Cardinality(Before(n)) + 1
             /\ Jar!Place(n) = Cardinality(Before(n)) + 1
  <2>1. Before(n + 1) = Before(n) \cup {n}
    <3>1. \A j \in Jar!Chosen : j < n + 1 <=> j < n \/ j = n
      BY <1>3
    <3> QED
      BY <1>6, <3>1 DEF Before
  <2>2. Before(n + 1) = {j \in Jar!Chosen : j <= n}
    BY <1>3 DEF Before
  <2>3. Cardinality(Before(n) \cup {n}) = Cardinality(Before(n)) + 1
    BY <1>4, <1>5, FS_AddElement
  <2> QED
    BY <2>1, <2>2, <2>3, SameCardinality DEF Jar!Place
<1>7. n \notin Jar!Chosen => Before(n + 1) = Before(n)
  BY <1>3 DEF Before
<1>8. ASSUME NEW i \in Before(n)
      PROVE  Jar!Place(i) \in 1 .. Cardinality(Before(n))
  <2> DEFINE S == {j \in Jar!Chosen : j <= i}
  <2>1. S \subseteq Before(n) /\ i \in S
    BY <1>3 DEF Before
  <2>2. IsFiniteSet(S) /\ Cardinality(S) <= Cardinality(Before(n)) /\ Cardinality(S) \in Nat
    BY <1>5, <2>1, FS_Subset, FS_CardinalityType
  <2>3. Cardinality(S) # 0
    BY <2>1, <2>2, FS_EmptySet
  <2>4. Jar!Place(i) = Cardinality(S)
    BY SameCardinality DEF Jar!Place
  <2> HIDE DEF S
  <2> QED
    BY <1>5, <2>2, <2>3, <2>4
<1> QED
  BY <1>5, <1>6, <1>7, <1>8

\* While the input stays, so does everything that is said of it.
LEMMA SameArchive ==
  ASSUME input' = input
  PROVE  /\ Jar!Chosen' = Jar!Chosen /\ Jar!Sizes' = Jar!Sizes
         /\ Before(pos)' = {j \in Jar!Chosen : j < pos'}
         /\ \A i : Jar!Place(i)' = Jar!Place(i)
BY DEF Jar!Chosen, Jar!Sizes, Jar!Selected, Before, Jar!Place

LEMMA ArchiveInit ==
  ASSUME Jar!ArchivesAssumption, Jar!Init
  PROVE  ArchiveInv /\ Output
<1>1. input \in Archives /\ pos = 1 /\ stack = <<>> /\ out = <<>> /\ status = "opening"
  BY DEF Jar!Init
<1>2. /\ MaxTotal \in Nat /\ input.members \in Seq(Jar!Members) /\ Len(input.members) \in Nat
      /\ Jar!Chosen \subseteq 1 .. Len(input.members)
  BY <1>1, ArchiveInputs
<1>3. Before(pos) = {}
  <2>1. \A j \in Jar!Chosen : ~(j < 1)
    BY <1>2
  <2> QED
    BY <1>1, <2>1 DEF Before
<1>4. Jar!Sizes[pos - 1] <= MaxTotal
  <2>1. Jar!Sizes[0] = 0
    BY <1>2, SizesAre
  <2> QED
    BY <1>1, <1>2, <2>1
<1>5. Cardinality(Before(pos)) = 0
  BY <1>3, FS_EmptySet
<1>6. ArchiveInv
  BY <1>1, <1>2, <1>3, <1>4 DEF ArchiveInv
<1>7. out \in Seq(Written) /\ stack \in Seq(Jar!Members) /\ Len(out) = 0
  BY <1>1
<1>8. Output
  BY <1>1, <1>3, <1>5, <1>7 DEF Output
<1> QED
  BY <1>6, <1>8

\* What each step does to the state.
LEMMA Stopping ==
  ASSUME ArchiveInv, Jar!ArchivesAssumption,
         \/ Jar!Open \/ Jar!TooManyMembers \/ Jar!MemberTooLarge \/ Jar!TotalTooLarge
         \/ Jar!Damaged \/ Jar!RenderDex \/ Jar!Finish
  PROVE  ArchiveInv'
<1>1. /\ input \in Archives /\ pos \in 1 .. Len(input.members) + 1
      /\ \A i \in Before(pos) : input.members[i].size <= MaxMember /\ input.members[i].intact
      /\ Jar!Sizes[pos - 1] <= MaxTotal
      /\ status = "opening" => pos = 1
      /\ status \in {"reading", "done"} => Len(input.members) <= MaxMembers
  BY DEF ArchiveInv
<1>2. /\ Len(input.members) \in Nat
      /\ \A i \in 1 .. Len(input.members) : i \in Jar!Chosen <=> Jar!Selected(input.members[i])
  BY <1>1, ArchiveInputs
<1>3. input' = input /\ pos' = pos
  BY DEF Jar!Open, Jar!TooManyMembers, Jar!MemberTooLarge, Jar!TotalTooLarge, Jar!Damaged, Jar!RenderDex,
         Jar!Finish, Jar!Fail
<1>4. /\ status' \in {"opening", "reading", "done", "nothing", "entries", "member", "total", "damaged"}
      /\ status' # "opening"
      /\ status' \in {"reading", "done"} => Len(input.members) <= MaxMembers
      /\ status' \in {"done", "nothing"} => pos > Len(input.members) /\ stack' = <<>>
      /\ status' = "nothing" => out' = <<>>
  BY <1>1 DEF Jar!Open, Jar!TooManyMembers, Jar!MemberTooLarge, Jar!TotalTooLarge, Jar!Damaged, Jar!RenderDex,
              Jar!Finish, Jar!Fail, Jar!Taken, Jar!Reading
<1>5. status' \in {"entries", "member", "total", "damaged"} =>
       \/ Len(input.members) > MaxMembers
       \/ pos <= Len(input.members) /\ Jar!Sizes[pos] > MaxTotal
       \/ pos \in Jar!Chosen /\ (input.members[pos].size > MaxMember \/ ~input.members[pos].intact)
  <2>1. pos <= Len(input.members) => pos \in 1 .. Len(input.members)
    BY <1>1, <1>2
  <2>2. CASE Jar!Open \/ Jar!RenderDex \/ Jar!Finish
    BY <2>2 DEF Jar!Open, Jar!RenderDex, Jar!Finish
  <2>3. CASE Jar!TooManyMembers
    BY <2>3 DEF Jar!TooManyMembers
  <2>4. CASE Jar!MemberTooLarge
    BY <1>2, <2>1, <2>4 DEF Jar!MemberTooLarge, Jar!Reading, Jar!Member
  <2>5. CASE Jar!TotalTooLarge
    BY <2>5 DEF Jar!TotalTooLarge, Jar!Reading, Jar!OverTotal
  <2>6. CASE Jar!Damaged
    BY <1>2, <2>1, <2>6 DEF Jar!Damaged, Jar!Taken, Jar!Reading, Jar!Member
  <2> QED
    BY <2>2, <2>3, <2>4, <2>5, <2>6
<1>6. Jar!Chosen' = Jar!Chosen /\ Jar!Sizes' = Jar!Sizes /\ Before(pos)' = Before(pos)
  BY <1>3, SameArchive DEF Before
<1> QED
  BY <1>1, <1>3, <1>4, <1>5, <1>6 DEF ArchiveInv

LEMMA Reading ==
  ASSUME ArchiveInv, Jar!ArchivesAssumption, Jar!Skip \/ Jar!ReadClass \/ Jar!ReadDex
  PROVE  ArchiveInv' /\ Before(pos)' = Before(pos + 1) /\ pos \in 1 .. Len(input.members)
<1>1. /\ input \in Archives /\ pos \in 1 .. Len(input.members) + 1
      /\ \A i \in Before(pos) : input.members[i].size <= MaxMember /\ input.members[i].intact
      /\ Jar!Sizes[pos - 1] <= MaxTotal
  BY DEF ArchiveInv
<1>2. /\ input' = input /\ pos' = pos + 1 /\ status' = status /\ status = "reading"
      /\ pos <= Len(input.members)
  BY DEF Jar!Skip, Jar!ReadClass, Jar!ReadDex, Jar!Taken, Jar!Reading
<1>3. /\ input.members \in Seq(Jar!Members) /\ Len(input.members) \in Nat
      /\ \A i \in 1 .. Len(input.members) : i \in Jar!Chosen <=> Jar!Selected(input.members[i])
  BY <1>1, ArchiveInputs
<1>4. pos \in 1 .. Len(input.members) /\ pos' \in 1 .. Len(input.members) + 1 /\ pos' - 1 = pos
  BY <1>1, <1>2, <1>3
<1>5. /\ pos \in Jar!Chosen => input.members[pos].size <= MaxMember /\ input.members[pos].intact
      /\ Jar!Sizes[pos] <= MaxTotal
  <2>1. CASE Jar!Skip
    <3>1. ~Jar!Selected(input.members[pos])
      BY <2>1 DEF Jar!Skip, Jar!Member
    <3>2. Jar!Sizes[pos] = Jar!Sizes[pos - 1] + 0 /\ Jar!Sizes[pos - 1] \in Nat
      <4>1. pos - 1 \in 0 .. Len(input.members)
        BY <1>4
      <4> QED
        BY <1>3, <1>4, <3>1, <4>1, SizesAre
    <3> QED
      BY <1>1, <1>3, <1>4, <3>1, <3>2
  <2>2. CASE Jar!ReadClass \/ Jar!ReadDex
    <3>1. input.members[pos].size <= MaxMember /\ input.members[pos].intact /\ ~(Jar!Sizes[pos] > MaxTotal)
      BY <2>2 DEF Jar!ReadClass, Jar!ReadDex, Jar!Taken, Jar!Member, Jar!OverTotal
    <3>2. Jar!Sizes[pos] \in Nat /\ MaxTotal \in Nat
      <4>1. pos \in 0 .. Len(input.members)
        BY <1>4
      <4> QED
        BY <1>1, <1>3, <4>1, SizesAre, ArchiveInputs
    <3> QED
      BY <3>1, <3>2
  <2> QED
    BY <2>1, <2>2
<1>6. Before(pos + 1) = IF pos \in Jar!Chosen THEN Before(pos) \cup {pos} ELSE Before(pos)
  BY <1>1, <1>4, Counting
<1>7. Jar!Sizes' = Jar!Sizes /\ Before(pos)' = Before(pos + 1)
  BY <1>2, SameArchive DEF Before
<1>8. \A i \in Before(pos + 1) : input.members[i].size <= MaxMember /\ input.members[i].intact
  BY <1>1, <1>5, <1>6
<1>9. Len(input.members) <= MaxMembers
  BY <1>2 DEF ArchiveInv
<1>10. ArchiveInv'
  BY <1>1, <1>2, <1>4, <1>5, <1>7, <1>8, <1>9 DEF ArchiveInv
<1> QED
  BY <1>4, <1>7, <1>10

\* What a class or a dex leaves in the output.
LEMMA ClassNames ==
  ASSUME NEW m \in Jar!Members
  PROVE  /\ Jar!OutputName(m) = Append(Jar!SafeName(m.name), m.stem)
         /\ Jar!SafeName(m.name) \in Seq(Jar!Part) /\ m.stem \in Jar!Part
         /\ Jar!OutputName(m) \in Seq(Jar!Part)
<1>1. m.name \in Seq(STRING) /\ m.stem \in Jar!Part
  BY DEF Jar!Members
<1>2. Jar!SafeName(m.name) \in Seq(Jar!Part)
  BY <1>1, SafeNameIs
<1>3. Jar!OutputName(m) = Append(Jar!SafeName(m.name), m.stem)
  BY DEF Jar!OutputName
<1> QED
  BY <1>1, <1>2, <1>3

LEMMA DexFiles ==
  ASSUME NEW m \in Jar!Members
  PROVE  /\ Jar!FilesOf(m) \in Seq(Written)
         /\ Len(Jar!FilesOf(m)) \in Nat /\ Len(Jar!FilesOf(m)) >= 1
         /\ Len(Jar!FilesOf(m)[1].path) \in Nat /\ Len(Jar!FilesOf(m)[1].path) >= 1
         /\ Jar!FilesOf(m)[1].path[1] = m.stem
<1>1. m.stem \in Jar!Part /\ m.files \in Seq(Jar!Part)
  BY DEF Jar!Members
<1>2. \A p \in Jar!Part : p \in STRING
  BY DEF Jar!Part
<1>3. CASE m.files = <<>>
  <2>1. Jar!FilesOf(m) = <<[path |-> <<m.stem>>, text |-> "error"]>>
    BY <1>3 DEF Jar!FilesOf
  <2>2. [path |-> <<m.stem>>, text |-> "error"] \in Written
    <3>1. <<m.stem>> \in Seq(Jar!Part)
      BY <1>1
    <3> QED
      BY <3>1 DEF Written
  <2> QED
    BY <2>1, <2>2
<1>4. CASE m.files # <<>>
  <2> DEFINE n == Len(m.files)
  <2>1. n \in Nat /\ n >= 1 /\ DOMAIN m.files = 1 .. n /\ \A i \in 1 .. n : m.files[i] \in Jar!Part
    BY <1>1, <1>4
  <2>2. Jar!FilesOf(m) = [i \in 1 .. n |-> [path |-> <<m.stem, m.files[i]>>, text |-> m.files[i]]]
    BY <1>4, <2>1 DEF Jar!FilesOf
  <2>3. \A i \in 1 .. n : [path |-> <<m.stem, m.files[i]>>, text |-> m.files[i]] \in Written
    <3>1. \A i \in 1 .. n : <<m.stem, m.files[i]>> \in Seq(Jar!Part)
      BY <1>1, <2>1
    <3> QED
      BY <1>2, <2>1, <3>1 DEF Written
  <2>4. Jar!FilesOf(m) \in Seq(Written) /\ Len(Jar!FilesOf(m)) = n
    <3> HIDE DEF Written
    <3>1. Jar!FilesOf(m) \in [1 .. n -> Written]
      BY <2>2, <2>3
    <3> QED
      BY <2>1, <3>1
  <2>5. Jar!FilesOf(m)[1] = [path |-> <<m.stem, m.files[1]>>, text |-> m.files[1]]
    BY <2>1, <2>2
  <2> QED
    BY <2>1, <2>4, <2>5
<1> QED
  BY <1>3, <1>4

LEMMA SkipKeeps ==
  ASSUME ArchiveInv, Output, Jar!ArchivesAssumption, Jar!Skip
  PROVE  Output'
<1>1. Before(pos)' = Before(pos + 1) /\ pos \in 1 .. Len(input.members) /\ input \in Archives
  BY Reading DEF ArchiveInv
<1>2. pos \notin Jar!Chosen
  BY <1>1, ArchiveInputs DEF Jar!Skip, Jar!Member
<1>3. Before(pos)' = Before(pos)
  BY <1>1, <1>2, Counting
<1>4. input' = input /\ out' = out /\ stack' = stack
  BY DEF Jar!Skip
<1>5. \A i : Jar!Place(i)' = Jar!Place(i)
  BY <1>4, SameArchive
<1>6. \A i \in Before(pos)' : (Jar!OutputName(input.members[i]))' = Jar!OutputName(input'.members[i])
  BY DEF Jar!OutputName, Jar!SafeName
<1> QED
  BY <1>3, <1>4, <1>5, <1>6 DEF Output

\* The steps that read nothing and write nothing.
LEMMA StillKeeps ==
  ASSUME Output, UNCHANGED <<input, pos, stack, out>>
  PROVE  Output'
<1>1. input' = input /\ pos' = pos /\ stack' = stack /\ out' = out
  OBVIOUS
<1>2. Before(pos)' = Before(pos) /\ \A i : Jar!Place(i)' = Jar!Place(i)
  BY <1>1, SameArchive DEF Before
<1>3. \A i \in Before(pos)' : (Jar!OutputName(input.members[i]))' = Jar!OutputName(input'.members[i])
  BY DEF Jar!OutputName, Jar!SafeName
<1> QED
  BY <1>1, <1>2, <1>3 DEF Output

LEMMA ClassKeeps ==
  ASSUME ArchiveInv, Output, Jar!ArchivesAssumption, Jar!ReadClass
  PROVE  Output'
<1> DEFINE m == input.members[pos]
           f == [path |-> Jar!OutputName(m), text |-> IF m.files = <<>> THEN "parse failed" ELSE m.files[1]]
<1>1. Before(pos)' = Before(pos + 1) /\ pos \in 1 .. Len(input.members) /\ input \in Archives
  BY Reading DEF ArchiveInv
<1>2. /\ input' = input /\ stack' = stack /\ out' = Append(out, f)
      /\ input.kind = "jar" /\ Jar!Selected(m)
  BY DEF Jar!ReadClass, Jar!Taken, Jar!Member
<1>3. m \in Jar!Members /\ pos \in Jar!Chosen
  BY <1>1, <1>2, ArchiveInputs
<1>4. f \in Written
  <2>1. Jar!OutputName(m) \in Seq(Jar!Part)
    BY <1>3, ClassNames
  <2>2. m.files # <<>> => m.files[1] \in STRING \cup {"parse failed", "error"}
    <3>1. m.files \in Seq(Jar!Part)
      BY <1>3 DEF Jar!Members
    <3>2. m.files # <<>> => m.files[1] \in Jar!Part
      BY <3>1
    <3> QED
      BY <3>2 DEF Jar!Part
  <2>3. (IF m.files = <<>> THEN "parse failed" ELSE m.files[1]) \in STRING \cup {"parse failed", "error"}
    BY <2>2
  <2> HIDE DEF m
  <2> QED
    BY <2>1, <2>3 DEF Written
<1> HIDE DEF f
<1>5. /\ out \in Seq(Written) /\ stack \in Seq(Jar!Members) /\ stack = <<>>
      /\ Len(out) = Cardinality(Before(pos))
      /\ \A i \in Before(pos) : out[Jar!Place(i)].path = Jar!OutputName(input.members[i])
  BY <1>2 DEF Output
<1>6. /\ Before(pos + 1) = Before(pos) \cup {pos}
      /\ Cardinality(Before(pos + 1)) = Cardinality(Before(pos)) + 1
      /\ Jar!Place(pos) = Cardinality(Before(pos)) + 1
      /\ Cardinality(Before(pos)) \in Nat
      /\ \A i \in Before(pos) : Jar!Place(i) \in 1 .. Cardinality(Before(pos))
  BY <1>1, <1>3, Counting
<1>7. /\ out' \in Seq(Written) /\ Len(out') = Len(out) + 1 /\ Len(out) \in Nat
      /\ out'[Len(out) + 1] = f
      /\ \A k \in 1 .. Len(out) : out'[k] = out[k]
  <2> HIDE DEF Written
  <2> QED
    BY <1>2, <1>4, <1>5, AppendProperties
<1>8. f.path = Jar!OutputName(m)
  BY DEF f
<1>9. \A i \in Before(pos + 1) : out'[Jar!Place(i)].path = Jar!OutputName(input.members[i])
  <2>1. ASSUME NEW i \in Before(pos)
        PROVE  out'[Jar!Place(i)].path = Jar!OutputName(input.members[i])
    BY <1>5, <1>6, <1>7
  <2>2. out'[Jar!Place(pos)].path = Jar!OutputName(m)
    BY <1>5, <1>6, <1>7, <1>8
  <2> QED
    BY <1>6, <2>1, <2>2
<1>10. \A i : Jar!Place(i)' = Jar!Place(i)
  BY <1>2, SameArchive
<1>11. Len(out') = Cardinality(Before(pos)')
  BY <1>1, <1>5, <1>6, <1>7
<1>12. \A i \in Before(pos)' : out'[Jar!Place(i)'].path = Jar!OutputName(input'.members[i])
  BY <1>1, <1>2, <1>9, <1>10
<1>13. input'.kind # "apk"
  BY <1>2
<1>14. out' \in Seq(Written) /\ stack' \in Seq(Jar!Members) /\ stack' = <<>>
  BY <1>2, <1>5, <1>7
<1>15. \A i \in Before(pos)' : (Jar!OutputName(input.members[i]))' = Jar!OutputName(input'.members[i])
  BY DEF Jar!OutputName, Jar!SafeName
<1> QED
  BY <1>11, <1>12, <1>13, <1>14, <1>15 DEF Output

LEMMA DexKeeps ==
  ASSUME ArchiveInv, Output, Jar!ArchivesAssumption, Jar!ReadDex
  PROVE  Output'
<1> DEFINE m == input.members[pos]
<1>1. Before(pos)' = Before(pos + 1) /\ pos \in 1 .. Len(input.members) /\ input \in Archives
  BY Reading DEF ArchiveInv
<1>2. /\ input' = input /\ out' = out /\ stack' = Append(stack, m)
      /\ input.kind = "apk" /\ Jar!Selected(m)
  BY DEF Jar!ReadDex, Jar!Taken, Jar!Member
<1>3. m \in Jar!Members /\ pos \in Jar!Chosen
  BY <1>1, <1>2, ArchiveInputs
<1> HIDE DEF m
<1>4. /\ out \in Seq(Written) /\ stack \in Seq(Jar!Members)
      /\ \A i \in Before(pos) :
           \/ \E k \in 1 .. Len(out) : \E l \in 1 .. Len(out[k].path) : out[k].path[l] = input.members[i].stem
           \/ \E k \in 1 .. Len(stack) : stack[k] = input.members[i]
  BY <1>2 DEF Output
<1>5. /\ stack' \in Seq(Jar!Members) /\ Len(stack') = Len(stack) + 1 /\ Len(stack) \in Nat
      /\ stack'[Len(stack) + 1] = m
      /\ \A k \in 1 .. Len(stack) : stack'[k] = stack[k]
  BY <1>2, <1>3, <1>4, AppendProperties
<1>6. Before(pos + 1) = Before(pos) \cup {pos}
  BY <1>1, <1>3, Counting
<1>7. ASSUME NEW i \in Before(pos + 1)
      PROVE  \/ \E k \in 1 .. Len(out) : \E l \in 1 .. Len(out[k].path) : out[k].path[l] = input.members[i].stem
             \/ \E k \in 1 .. Len(stack') : stack'[k] = input.members[i]
  <2>1. CASE i = pos
    <3>1. Len(stack) + 1 \in 1 .. Len(stack') /\ stack'[Len(stack) + 1] = input.members[i]
      BY <1>5, <2>1 DEF m
    <3> QED
      BY <3>1
  <2>2. CASE i # pos
    <3>1. i \in Before(pos)
      BY <1>6, <2>2
    <3>2. \A k \in 1 .. Len(stack) : k \in 1 .. Len(stack')
      BY <1>5
    <3> QED
      BY <1>4, <1>5, <3>1, <3>2
  <2> QED
    BY <2>1, <2>2
<1> QED
  BY <1>1, <1>2, <1>4, <1>5, <1>7 DEF Output

LEMMA RenderKeeps ==
  ASSUME ArchiveInv, Output, Jar!ArchivesAssumption, Jar!RenderDex
  PROVE  Output'
<1> DEFINE d == Head(stack)
           w == Jar!FilesOf(d)
<1>1. input' = input /\ pos' = pos /\ out' = out \o w /\ stack' = Tail(stack) /\ stack # <<>>
  BY DEF Jar!RenderDex
<1>2. input.kind \in {"jar", "apk"}
  BY ArchiveInputs DEF ArchiveInv
<1>3. /\ input.kind = "apk" /\ out \in Seq(Written) /\ stack \in Seq(Jar!Members)
      /\ \A i \in Before(pos) :
           \/ \E k \in 1 .. Len(out) : \E l \in 1 .. Len(out[k].path) : out[k].path[l] = input.members[i].stem
           \/ \E k \in 1 .. Len(stack) : stack[k] = input.members[i]
  BY <1>1, <1>2 DEF Output
<1>4. /\ d = stack[1] /\ d \in Jar!Members /\ stack' \in Seq(Jar!Members)
      /\ Len(stack) \in Nat /\ Len(stack') = Len(stack) - 1
      /\ \A k \in 2 .. Len(stack) : stack'[k - 1] = stack[k]
  <2>1. Len(stack) \in Nat /\ Len(stack) >= 1 /\ \A k \in 1 .. Len(stack) : stack[k] \in Jar!Members
    BY <1>1, <1>3
  <2>2. d = stack[1] /\ d \in Jar!Members
    BY <1>1, <1>3, <2>1
  <2>3. stack' \in Seq(Jar!Members) /\ Len(stack') = Len(stack) - 1
    BY <1>1, <1>3, HeadTailProperties
  <2>4. \A k \in 1 .. Len(stack) - 1 : stack'[k] = stack[k + 1]
    BY <1>1, <1>3, HeadTailProperties
  <2>5. \A k \in 2 .. Len(stack) : k - 1 \in 1 .. Len(stack) - 1 /\ (k - 1) + 1 = k
    BY <2>1
  <2> QED
    BY <2>1, <2>2, <2>3, <2>4, <2>5
<1> HIDE DEF d
<1>5. /\ w \in Seq(Written) /\ Len(w) \in Nat /\ Len(w) >= 1
      /\ Len(w[1].path) \in Nat /\ Len(w[1].path) >= 1 /\ w[1].path[1] = d.stem
  BY <1>4, DexFiles
<1> HIDE DEF w
<1>6. /\ out' \in Seq(Written) /\ Len(out') = Len(out) + Len(w) /\ Len(out) \in Nat
      /\ \A k \in 1 .. Len(out) : out'[k] = out[k]
      /\ out'[Len(out) + 1] = w[1]
  <2>1. /\ out \o w \in Seq(Written) /\ Len(out \o w) = Len(out) + Len(w) /\ Len(out) \in Nat
        /\ \A k \in 1 .. Len(out) + Len(w) : (out \o w)[k] = IF k <= Len(out) THEN out[k] ELSE w[k - Len(out)]
    BY <1>3, <1>5, ConcatProperties
  <2>2. \A k \in 1 .. Len(out) : k \in 1 .. Len(out) + Len(w) /\ k <= Len(out)
    BY <1>5, <2>1
  <2>3. /\ Len(out) + 1 \in 1 .. Len(out) + Len(w) /\ ~(Len(out) + 1 <= Len(out))
        /\ (Len(out) + 1) - Len(out) = 1
    BY <1>5, <2>1
  <2> QED
    BY <1>1, <2>1, <2>2, <2>3
<1>7. Before(pos)' = Before(pos)
  BY <1>1, SameArchive DEF Before
<1>8. ASSUME NEW i \in Before(pos)
      PROVE  \/ \E k \in 1 .. Len(out') : \E l \in 1 .. Len(out'[k].path) : out'[k].path[l] = input.members[i].stem
             \/ \E k \in 1 .. Len(stack') : stack'[k] = input.members[i]
  <2>1. ASSUME NEW k \in 1 .. Len(out), NEW l \in 1 .. Len(out[k].path), out[k].path[l] = input.members[i].stem
        PROVE  \E h \in 1 .. Len(out') : \E g \in 1 .. Len(out'[h].path) : out'[h].path[g] = input.members[i].stem
    <3>1. k \in 1 .. Len(out') /\ out'[k] = out[k]
      BY <1>5, <1>6
    <3> QED
      BY <2>1, <3>1
  <2>2. ASSUME stack[1] = input.members[i]
        PROVE  \E h \in 1 .. Len(out') : \E g \in 1 .. Len(out'[h].path) : out'[h].path[g] = input.members[i].stem
    <3>1. Len(out) + 1 \in 1 .. Len(out') /\ 1 \in 1 .. Len(w[1].path) /\ w[1].path[1] = input.members[i].stem
      BY <1>4, <1>5, <1>6, <2>2
    <3>2. 1 \in 1 .. Len(out'[Len(out) + 1].path) /\ out'[Len(out) + 1].path[1] = input.members[i].stem
      BY <1>6, <3>1
    <3> QED
      BY <3>1, <3>2
  <2>3. ASSUME NEW k \in 2 .. Len(stack), stack[k] = input.members[i]
        PROVE  \E h \in 1 .. Len(stack') : stack'[h] = input.members[i]
    <3>1. k - 1 \in 1 .. Len(stack') /\ stack'[k - 1] = input.members[i]
      BY <1>4, <2>3
    <3> QED
      BY <3>1
  <2>4. \A k \in 1 .. Len(stack) : k = 1 \/ k \in 2 .. Len(stack)
    BY <1>4
  <2> QED
    BY <1>3, <2>1, <2>2, <2>3, <2>4
<1>9. input'.kind # "jar"
  BY <1>1, <1>3
<1>10. \A i \in Before(pos)' :
         \/ \E k \in 1 .. Len(out') : \E l \in 1 .. Len(out'[k].path) : out'[k].path[l] = input'.members[i].stem
         \/ \E k \in 1 .. Len(stack') : stack'[k] = input'.members[i]
  BY <1>1, <1>7, <1>8
<1>11. out' \in Seq(Written) /\ stack' \in Seq(Jar!Members)
  BY <1>4, <1>6
<1> QED
  BY <1>9, <1>10, <1>11 DEF Output

\* What the invariant says when the archive is through.
LEMMA ArchiveThrough ==
  ASSUME ArchiveInv, Output, Jar!ArchivesAssumption, status \in {"done", "nothing"}
  PROVE  /\ Before(pos) = Jar!Chosen /\ pos = Len(input.members) + 1 /\ stack = <<>>
         /\ \A i \in Jar!Chosen : input.members[i] \in Jar!Members
         /\ input.kind = "jar" => /\ Len(out) = Cardinality(Jar!Chosen)
                                  /\ \A i \in Jar!Chosen : Jar!Place(i) \in 1 .. Len(out)
<1>1. /\ input \in Archives /\ pos \in 1 .. Len(input.members) + 1
      /\ pos > Len(input.members) /\ stack = <<>>
  BY DEF ArchiveInv
<1>2. /\ Jar!Chosen \subseteq 1 .. Len(input.members) /\ Len(input.members) \in Nat
      /\ \A i \in 1 .. Len(input.members) : input.members[i] \in Jar!Members
  BY <1>1, ArchiveInputs
<1>3. pos = Len(input.members) + 1
  BY <1>1, <1>2
<1>4. Before(pos) = Jar!Chosen
  <2>1. \A j \in Jar!Chosen : j < pos
    BY <1>2, <1>3
  <2> QED
    BY <2>1 DEF Before
<1>5. ASSUME input.kind = "jar"
      PROVE  /\ Len(out) = Cardinality(Jar!Chosen)
             /\ \A i \in Jar!Chosen : Jar!Place(i) \in 1 .. Len(out)
  <2>1. Len(out) = Cardinality(Before(pos))
    BY <1>5 DEF Output
  <2>2. \A i \in Before(pos) : Jar!Place(i) \in 1 .. Cardinality(Before(pos))
    BY <1>1, Counting
  <2> QED
    BY <1>4, <2>1, <2>2
<1> QED
  BY <1>1, <1>2, <1>3, <1>4, <1>5

\* Every chosen member has its place, and no name climbs.
LEMMA EveryPlace ==
  ASSUME ArchiveInv, Output, Jar!ArchivesAssumption, status = "done"
  PROVE  /\ \A i \in Jar!Chosen : \E f \in Jar!Range(out) : input.members[i].stem \in Jar!Range(f.path)
         /\ \A f \in Jar!Range(out) : Jar!Range(f.path) \cap Jar!Climbing = {}
<1>1. /\ Before(pos) = Jar!Chosen /\ stack = <<>>
      /\ \A i \in Jar!Chosen : input.members[i] \in Jar!Members
      /\ input.kind = "jar" => \A i \in Jar!Chosen : Jar!Place(i) \in 1 .. Len(out)
  BY ArchiveThrough
<1>2. out \in Seq(Written) /\ DOMAIN out = 1 .. Len(out) /\ Len(out) \in Nat
  BY DEF Output
<1>3. \A k \in 1 .. Len(out) : /\ out[k] \in Jar!Range(out) /\ out[k].path \in Seq(Jar!Part)
                               /\ DOMAIN out[k].path = 1 .. Len(out[k].path)
  <2>1. \A k \in 1 .. Len(out) : out[k] \in Written
    BY <1>2
  <2>2. \A k \in 1 .. Len(out) : out[k].path \in Seq(Jar!Part)
    BY <2>1 DEF Written
  <2>3. \A k \in 1 .. Len(out) : out[k] \in Jar!Range(out)
    BY <1>2 DEF Jar!Range
  <2> QED
    BY <2>2, <2>3
<1>4. ASSUME NEW i \in Jar!Chosen
      PROVE  \E f \in Jar!Range(out) : input.members[i].stem \in Jar!Range(f.path)
  <2>1. \E k \in 1 .. Len(out) : \E l \in 1 .. Len(out[k].path) : out[k].path[l] = input.members[i].stem
    <3>1. CASE input.kind = "jar"
      <4> DEFINE name == Jar!SafeName(input.members[i].name)
                 stem == input.members[i].stem
      <4>1. Jar!Place(i) \in 1 .. Len(out) /\ out[Jar!Place(i)].path = Jar!OutputName(input.members[i])
        BY <1>1, <3>1 DEF Output
      <4>2. Jar!OutputName(input.members[i]) = Append(name, stem) /\ name \in Seq(Jar!Part) /\ stem \in Jar!Part
        BY <1>1, ClassNames
      <4> HIDE DEF name, stem
      <4>3. /\ Len(name) \in Nat /\ Len(Append(name, stem)) = Len(name) + 1
            /\ Append(name, stem)[Len(name) + 1] = stem
        BY <4>2, AppendProperties
      <4>4. Len(name) + 1 \in 1 .. Len(out[Jar!Place(i)].path) /\ out[Jar!Place(i)].path[Len(name) + 1] = stem
        BY <4>1, <4>2, <4>3
      <4> QED
        BY <4>1, <4>4 DEF stem
    <3>2. CASE input.kind = "apk"
      <4>1. \/ \E k \in 1 .. Len(out) : \E l \in 1 .. Len(out[k].path) : out[k].path[l] = input.members[i].stem
            \/ \E k \in 1 .. Len(stack) : stack[k] = input.members[i]
        BY <1>1, <3>2 DEF Output
      <4>2. ~ \E k \in 1 .. Len(stack) : stack[k] = input.members[i]
        BY <1>1
      <4> QED
        BY <4>1, <4>2
    <3> QED
      BY <3>1, <3>2, ArchiveInputs DEF ArchiveInv
  <2>2. PICK k \in 1 .. Len(out) : \E l \in 1 .. Len(out[k].path) : out[k].path[l] = input.members[i].stem
    BY <2>1
  <2>3. input.members[i].stem \in Jar!Range(out[k].path)
    BY <1>3, <2>2 DEF Jar!Range
  <2> QED
    BY <1>3, <2>3
<1>5. ASSUME NEW f \in Jar!Range(out)
      PROVE  Jar!Range(f.path) \cap Jar!Climbing = {}
  <2>1. PICK k \in 1 .. Len(out) : f = out[k]
    BY <1>2 DEF Jar!Range
  <2>2. \A l \in 1 .. Len(f.path) : f.path[l] \in Jar!Part
    BY <1>3, <2>1
  <2>3. \A p \in Jar!Range(f.path) : p \in Jar!Part
    BY <1>3, <2>1, <2>2 DEF Jar!Range
  <2> QED
    BY <2>3 DEF Jar!Part
<1> QED
  BY <1>4, <1>5

\* No class is written over another.
LEMMA ClassesStayApart ==
  ASSUME ArchiveInv, Output, Jar!ArchivesAssumption, status = "done", input.kind = "jar"
  PROVE  Jar!ClassesApart
<1>1. /\ Before(pos) = Jar!Chosen
      /\ \A i \in Jar!Chosen : input.members[i] \in Jar!Members
  BY ArchiveThrough
<1>2. \A i \in Jar!Chosen : out[Jar!Place(i)].path = Jar!OutputName(input.members[i])
  BY <1>1 DEF Output
<1>3. ASSUME NEW i \in Jar!Chosen, NEW j \in Jar!Chosen,
             Jar!Plain(input.members[i]), Jar!Plain(input.members[j]),
             out[Jar!Place(i)].path = out[Jar!Place(j)].path
      PROVE  input.members[i].name = input.members[j].name /\ input.members[i].stem = input.members[j].stem
  <2> DEFINE a == input.members[i].name
             b == input.members[j].name
             s == input.members[i].stem
             t == input.members[j].stem
  <2>1. a = Jar!SafeName(a) /\ b = Jar!SafeName(b)
    BY <1>3 DEF Jar!Plain
  <2>2. /\ Jar!OutputName(input.members[i]) = Append(Jar!SafeName(a), s) /\ Jar!SafeName(a) \in Seq(Jar!Part)
        /\ Jar!OutputName(input.members[j]) = Append(Jar!SafeName(b), t) /\ Jar!SafeName(b) \in Seq(Jar!Part)
        /\ s \in Jar!Part /\ t \in Jar!Part
    BY <1>1, ClassNames
  <2>3. Append(a, s) = Append(b, t) /\ a \in Seq(Jar!Part) /\ b \in Seq(Jar!Part)
    BY <1>2, <1>3, <2>1, <2>2
  <2> HIDE DEF a, b, s, t
  <2>4. a = b /\ s = t
    BY <2>2, <2>3, AppendInjective
  <2> QED
    BY <2>4 DEF a, b, s, t
<1> QED
  BY <1>3 DEF Jar!ClassesApart

LEMMA ArchiveShows ==
  ASSUME ArchiveInv, Output, Jar!ArchivesAssumption
  PROVE  Jar!WholeOrRefused
<1>1. /\ input \in Archives /\ pos \in 1 .. Len(input.members) + 1
      /\ \A i \in Before(pos) : input.members[i].size <= MaxMember /\ input.members[i].intact
      /\ Jar!Sizes[pos - 1] <= MaxTotal
      /\ status = "done" => Len(input.members) <= MaxMembers
      /\ status = "nothing" => out = <<>>
  BY DEF ArchiveInv
<1>2. /\ MaxTotal \in Nat /\ input.kind \in {"jar", "apk"}
      /\ input.members \in Seq(Jar!Members) /\ Len(input.members) \in Nat
      /\ Jar!Chosen \subseteq 1 .. Len(input.members)
  BY <1>1, ArchiveInputs
<1>3. ASSUME status = "done"
      PROVE  /\ Len(input.members) <= MaxMembers /\ Jar!Expanded <= MaxTotal
             /\ \A i \in Jar!Chosen : input.members[i].size <= MaxMember /\ input.members[i].intact
             /\ input.kind = "jar" => Len(out) = Jar!Cardinality(Jar!Chosen)
  <2>1. Before(pos) = Jar!Chosen /\ pos = Len(input.members) + 1
    BY <1>3, ArchiveThrough
  <2>2. Jar!Sizes[pos - 1] = Jar!Expanded
    <3>1. pos - 1 = Len(input.members)
      BY <1>2, <2>1
    <3> QED
      BY <3>1 DEF Jar!Expanded
  <2>3. input.kind = "jar" => Len(out) = Cardinality(Jar!Chosen)
    BY <1>3, ArchiveThrough
  <2> QED
    BY <1>1, <1>3, <2>1, <2>2, <2>3, SameCardinality
<1>4. ASSUME status = "nothing"
      PROVE  Jar!Chosen = {}
  <2>1. Before(pos) = Jar!Chosen /\ stack = <<>> /\ out = <<>>
    BY <1>1, <1>4, ArchiveThrough
  <2>2. CASE input.kind = "jar"
    <3>1. Len(out) = Cardinality(Jar!Chosen)
      BY <1>4, <2>2, ArchiveThrough
    <3>2. IsFiniteSet(Jar!Chosen)
      <4>1. IsFiniteSet(1 .. Len(input.members))
        BY <1>2, FS_Interval
      <4> QED
        BY <1>2, <4>1, FS_Subset
    <3> QED
      BY <2>1, <3>1, <3>2, FS_EmptySet
  <2>3. CASE input.kind = "apk"
    BY <2>1, <2>3 DEF Output
  <2> QED
    BY <1>2, <2>2, <2>3
<1>5. ASSUME status \in {"entries", "member", "total", "damaged"}
      PROVE  \/ Len(input.members) > MaxMembers \/ Jar!Expanded > MaxTotal
             \/ \E i \in Jar!Chosen : input.members[i].size > MaxMember \/ ~input.members[i].intact
  <2>1. \/ Len(input.members) > MaxMembers
        \/ pos <= Len(input.members) /\ Jar!Sizes[pos] > MaxTotal
        \/ pos \in Jar!Chosen /\ (input.members[pos].size > MaxMember \/ ~input.members[pos].intact)
    BY <1>5 DEF ArchiveInv
  <2>2. CASE pos <= Len(input.members) /\ Jar!Sizes[pos] > MaxTotal
    <3>1. pos \in 0 .. Len(input.members) /\ Len(input.members) \in 0 .. Len(input.members)
      BY <1>1, <1>2, <2>2
    <3>2. Jar!Sizes[pos] <= Jar!Expanded
      BY <1>2, <3>1, SizesGrow
    <3>3. Jar!Sizes[pos] \in Nat /\ Jar!Expanded \in Nat
      BY <1>2, <3>1, SizesAre DEF Jar!Expanded
    <3> QED
      BY <1>2, <2>2, <3>2, <3>3
  <2> QED
    BY <2>1, <2>2
<1>6. status = "done" =>
       /\ \A i \in Jar!Chosen : \E f \in Jar!Range(out) : input.members[i].stem \in Jar!Range(f.path)
       /\ \A f \in Jar!Range(out) : Jar!Range(f.path) \cap Jar!Climbing = {}
  BY EveryPlace
<1>7. status = "done" /\ input.kind = "jar" => Jar!ClassesApart
  BY ClassesStayApart
<1> QED
  BY <1>3, <1>4, <1>5, <1>6, <1>7 DEF Jar!WholeOrRefused

LEMMA ArchiveSteps ==
  ASSUME ArchiveInv, Output, Jar!ArchivesAssumption, [Jar!Next]_(Jar!vars)
  PROVE  (ArchiveInv /\ Output)'
<1>1. CASE Jar!Open \/ Jar!TooManyMembers \/ Jar!MemberTooLarge \/ Jar!TotalTooLarge \/ Jar!Damaged \/ Jar!Finish
  <2>1. ArchiveInv'
    BY <1>1, Stopping
  <2>2. UNCHANGED <<input, pos, stack, out>>
    BY <1>1 DEF Jar!Open, Jar!TooManyMembers, Jar!MemberTooLarge, Jar!TotalTooLarge, Jar!Damaged, Jar!Finish,
                Jar!Fail
  <2> QED
    BY <2>1, <2>2, StillKeeps
<1>2. CASE Jar!RenderDex
  BY <1>2, Stopping, RenderKeeps
<1>3. CASE Jar!Skip
  BY <1>3, Reading, SkipKeeps
<1>4. CASE Jar!ReadClass
  BY <1>4, Reading, ClassKeeps
<1>5. CASE Jar!ReadDex
  BY <1>5, Reading, DexKeeps
<1>6. CASE UNCHANGED Jar!vars
  <2>1. UNCHANGED <<input, pos, stack, out>> /\ status' = status
    BY <1>6 DEF Jar!vars
  <2>2. Jar!Chosen' = Jar!Chosen /\ Jar!Sizes' = Jar!Sizes /\ Before(pos)' = Before(pos)
    BY <2>1, SameArchive DEF Before
  <2>3. ArchiveInv'
    BY <2>1, <2>2 DEF ArchiveInv
  <2> QED
    BY <2>1, <2>3, StillKeeps
<1> QED
  BY <1>1, <1>2, <1>3, <1>4, <1>5, <1>6 DEF Jar!Next
=============================================================================
