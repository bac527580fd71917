-------------------------- MODULE ConditionsProofs --------------------------
(***************************************************************************)
(* Proofs about Conditions, for registers of every width and blocks of     *)
(* every length.                                                           *)
(*                                                                         *)
(* The invariant ties the flags to the values last compared; that each     *)
(* relation then reads as the processor decides is arithmetic.             *)
(***************************************************************************)
EXTENDS Conditions, WellFoundedInduction, TLAPS

\* While nothing else has set the flags, they are those of the comparison that is
\* remembered.
FlagsInv ==
  setter \in {"cmp", "test"} =>
    /\ comparison # <<>>
    /\ C.kind = setter
    /\ flags = IF setter = "cmp" THEN CmpFlags(held[1], held[2]) ELSE TestFlags(held[1], held[2])

CInv ==
  /\ entry \in [Registers -> Word]
  /\ regs \in [Registers -> Word]
  /\ held \in Word \X Word
  /\ setter \in {"none", "cmp", "test", "add"}
  /\ FlagsInv

-----------------------------------------------------------------------------
(***************************************************************************)
(* Numbers.                                                                *)
(***************************************************************************)
LEMMA SmallestExists ==
  ASSUME NEW S \in SUBSET Nat, S # {}
  PROVE  \E a \in S : \A b \in S : a <= b
<1>1. PICK m \in S : \A n \in S : ~(<<n, m>> \in OpToRel(<, Nat))
  BY NatLessThanWellFounded, WFMin
<1>2. \A n \in S : ~(n < m)
  BY <1>1 DEF OpToRel
<1> QED
  BY <1>2

LEMMA WordFacts ==
  /\ Half \in Nat \ {0}
  /\ Modulus \in Nat \ {0}
  /\ Modulus = 2 * Half
  /\ \A v \in Word : v \in Nat /\ v < Modulus
  /\ \A n \in Nat : n < Modulus => n \in Word
  /\ 0 \in Word
BY WidthAssumption DEF Word, Modulus

\* The bits of a word and of what is left of it without the last.
Anded(n, f) ==
  f = [v \in 0 .. n |-> [w \in Word |->
         IF v = 0 \/ w = 0 THEN 0 ELSE 2 * f[v \div 2][w \div 2] + (v % 2) * (w % 2)]]

LEMMA AndedExists ==
  ASSUME NEW m \in Nat
  PROVE  \E f : Anded(m, f)
<1> DEFINE Bad == {n \in Nat : ~\E f : Anded(n, f)}
           Row(f, v) == [w \in Word |->
             IF v = 0 \/ w = 0 THEN 0 ELSE 2 * f[v \div 2][w \div 2] + (v % 2) * (w % 2)]
<1>1. ASSUME Bad # {} PROVE FALSE
  <2>1. PICK n \in Bad : \A k \in Bad : n <= k
    BY <1>1, SmallestExists
  <2>2. CASE n = 0
    <3> DEFINE zero == [v \in 0 .. 0 |-> [w \in Word |-> 0]]
    <3>1. \A v \in 0 .. 0 : zero[v] = Row(zero, v)
      OBVIOUS
    <3>2. zero = [v \in 0 .. 0 |-> Row(zero, v)]
      BY <3>1
    <3>3. Anded(0, zero)
      BY <3>2 DEF Anded
    <3> QED
      BY <2>1, <2>2, <3>3
  <2>3. CASE n # 0
    <3>1. n - 1 \in Nat /\ n - 1 \notin Bad
      BY <2>1, <2>3
    <3>2. PICK f : Anded(n - 1, f)
      BY <3>1
    <3> DEFINE next == [v \in 0 .. n |-> IF v = n THEN Row(f, n) ELSE f[v]]
    <3>3. ASSUME NEW v \in 0 .. n
          PROVE  next[v] = Row(next, v)
      <4>1. v # 0 => v \div 2 \in 0 .. (n - 1) /\ v \div 2 # n
        BY <2>3
      <4>2. v # 0 => next[v \div 2] = f[v \div 2]
        BY <4>1
      <4>3. Row(next, v) = Row(f, v)
        BY <4>2
      <4>4. CASE v = n
        BY <4>3, <4>4
      <4>5. CASE v # n
        <5>1. v \in 0 .. (n - 1) /\ next[v] = f[v]
          BY <4>5
        <5>2. f[v] = Row(f, v)
          BY <3>2, <5>1 DEF Anded
        <5> QED
          BY <4>3, <5>1, <5>2
      <4> QED
        BY <4>4, <4>5
    <3>4. next = [v \in 0 .. n |-> Row(next, v)]
      BY <3>3
    <3>5. Anded(n, next)
      BY <3>4 DEF Anded
    <3> QED
      BY <2>1, <3>5
  <2> QED
    BY <2>2, <2>3
<1> QED
  BY <1>1

\* A word shares all its bits with itself.
LEMMA AndSelf ==
  ASSUME NEW x \in Word
  PROVE  And[x][x] = x
<1> DEFINE Way(f) == f = [v \in Word |-> [w \in Word |->
             IF v = 0 \/ w = 0 THEN 0 ELSE 2 * f[v \div 2][w \div 2] + (v % 2) * (w % 2)]]
<1>1. \E f : Way(f)
  <2>1. Modulus - 1 \in Nat
    BY WordFacts
  <2>2. PICK f : Anded(Modulus - 1, f)
    BY <2>1, AndedExists
  <2>3. Way(f)
    BY <2>2 DEF Anded, Word
  <2> QED
    BY <2>3
<1>2. Way(And)
  <2>1. And = CHOOSE f : Way(f)
    BY DEF And
  <2> HIDE DEF Way
  <2> QED
    BY <1>1, <2>1
<1> DEFINE Bad == {v \in Word : And[v][v] # v}
<1>3. ASSUME Bad # {} PROVE FALSE
  <2>1. PICK v \in Bad : \A u \in Bad : v <= u
    <3>1. Bad \in SUBSET Nat
      BY WordFacts
    <3> QED
      BY <1>3, <3>1, SmallestExists
  <2>2. v \in Nat /\ v \in Word
    BY <2>1, WordFacts
  <2>3. And[v][v] = IF v = 0 \/ v = 0 THEN 0 ELSE 2 * And[v \div 2][v \div 2] + (v % 2) * (v % 2)
    BY <1>2, <2>2
  <2>4. CASE v = 0
    BY <2>1, <2>3, <2>4
  <2>5. CASE v # 0
    <3>1. v \div 2 \in Nat /\ v \div 2 < v /\ v = 2 * (v \div 2) + (v % 2) /\ v % 2 \in {0, 1}
      BY <2>2, <2>5
    <3>2. v \div 2 \in Word
      BY <2>2, <3>1, WordFacts
    <3>3. And[v \div 2][v \div 2] = v \div 2
      <4>1. v \div 2 \notin Bad
        BY <2>1, <2>2, <3>1
      <4> QED
        BY <3>2, <4>1
    <3>4. (v % 2) * (v % 2) = v % 2
      BY <3>1
    <3>5. And[v][v] = 2 * (v \div 2) + (v % 2)
      BY <2>3, <2>5, <3>3, <3>4
    <3> QED
      BY <2>1, <3>1, <3>5
  <2> QED
    BY <2>4, <2>5
<1> QED
  BY <1>3

\* A printed number is that number.
LEMMA NumberSaysItself ==
  ASSUME NEW v \in Word
  PROVE  Says(Value(v)) = v
<1> DEFINE e == Value(v)
           Way(f) == f = [n \in 0 .. Len(e) |->
             IF n = 0 THEN 0 ELSE (f[n - 1] + Worth(e[n], entry, regs)) % Modulus]
           sum == [n \in 0 .. 1 |-> IF n = 0 THEN 0 ELSE v]
           chosen == CHOOSE f : Way(f)
<1>1. Len(e) = 1 /\ e[1] = <<"value", v>>
  BY DEF Value
<1>2. Worth(e[1], entry, regs) = v
  BY <1>1 DEF Worth
<1>3. (0 + v) % Modulus = v
  BY WordFacts
<1>4. Says(e) = chosen[Len(e)]
  BY DEF Says, Meaning
<1> HIDE DEF e
<1>5. Way(sum)
  BY <1>1, <1>2, <1>3
<1>6. Way(chosen)
  BY <1>5
<1> HIDE DEF chosen
<1>7. /\ chosen[0] = 0
      /\ chosen[1] = (chosen[0] + Worth(e[1], entry, regs)) % Modulus
  BY <1>1, <1>6
<1>8. chosen[1] = v
  BY <1>2, <1>3, <1>7
<1> QED
  BY <1>1, <1>4, <1>8 DEF e

-----------------------------------------------------------------------------
(***************************************************************************)
(* Steps.                                                                  *)
(***************************************************************************)

\* The processor reads words.
LEMMA OperandsAreWords ==
  ASSUME CInv, NEW r \in Registers, NEW src \in Sources
  PROVE  /\ regs[r] \in Word
         /\ Number(src) \in Word
         /\ (regs[r] + Number(src)) % Modulus \in Word
<1>1. regs[r] \in Word
  BY DEF CInv
<1>2. Number(src) \in Word
  <2>1. CASE src.kind = "register"
    <3>1. src.of \in Registers
      BY <2>1, SourceAssumption
    <3> QED
      BY <2>1, <3>1 DEF Number, CInv
  <2>2. CASE src.kind # "register"
    <3>1. PICK n \in Word : src.of = Value(n)
      BY <2>2, SourceAssumption
    <3>2. src.of[1][2] = n
      BY <3>1 DEF Value
    <3> QED
      BY <2>2, <3>2 DEF Number
  <2> QED
    BY <2>1, <2>2
<1>3. \A n \in Nat : n % Modulus \in Word
  BY WordFacts DEF Word
<1> QED
  BY <1>1, <1>2, <1>3, WordFacts

LEMMA InitCInv == Init => CInv
BY WordFacts DEF Init, CInv, FlagsInv

LEMMA StepCInv == CInv /\ [Next]_vars => CInv'
<1> SUFFICES ASSUME CInv, [Next]_vars PROVE CInv'
  OBVIOUS
<1>1. CASE UNCHANGED vars
  BY <1>1 DEF vars, CInv, FlagsInv, C
<1>2. ASSUME NEW r \in Registers, NEW src \in Sources, NEW kind \in {"cmp", "test"},
             Compare(kind, r, src)
      PROVE  CInv'
  <2>1. /\ comparison' = <<[kind |-> kind, left |-> ValueIn(state, r), right |-> Resolve(state, src)]>>
        /\ flags' = IF kind = "cmp" THEN CmpFlags(regs[r], Number(src))
                                    ELSE TestFlags(regs[r], Number(src))
        /\ setter' = kind
        /\ held' = <<regs[r], Number(src)>>
        /\ UNCHANGED <<entry, regs>>
    BY <1>2 DEF Compare, Step
  <2>2. held' \in Word \X Word
    BY <2>1, OperandsAreWords
  <2>3. C'.kind = kind /\ comparison' # <<>>
    BY <2>1 DEF C
  <2>4. held'[1] = regs[r] /\ held'[2] = Number(src)
    BY <2>1
  <2>5. flags' = IF setter' = "cmp" THEN CmpFlags(held'[1], held'[2])
                                    ELSE TestFlags(held'[1], held'[2])
    BY <2>1, <2>4
  <2>6. FlagsInv'
    BY <2>1, <2>3, <2>5 DEF FlagsInv
  <2> QED
    BY <2>1, <2>2, <2>6 DEF CInv
<1>3. ASSUME NEW r \in Registers, NEW src \in Sources, Move(r, src)
      PROVE  CInv'
  <2>1. /\ regs' = [regs EXCEPT ![r] = Number(src)]
        /\ UNCHANGED <<entry, flags, comparison, setter, held>>
    BY <1>3 DEF Move, Step
  <2>2. regs' \in [Registers -> Word]
    BY <2>1, OperandsAreWords DEF CInv
  <2>3. FlagsInv'
    BY <2>1 DEF CInv, FlagsInv, C
  <2> QED
    BY <2>1, <2>2, <2>3 DEF CInv
<1>4. ASSUME NEW r \in Registers, NEW src \in Sources, Add(r, src)
      PROVE  CInv'
  <2>1. /\ regs' = [regs EXCEPT ![r] = (@ + Number(src)) % Modulus]
        /\ setter' = "add"
        /\ UNCHANGED <<entry, held>>
    BY <1>4 DEF Add, Step
  <2>2. regs' \in [Registers -> Word]
    BY <2>1, OperandsAreWords DEF CInv
  <2> QED
    BY <2>1, <2>2 DEF CInv, FlagsInv
<1> QED
  BY <1>1, <1>2, <1>3, <1>4 DEF Next

-----------------------------------------------------------------------------
(***************************************************************************)
(* Conditions.                                                             *)
(***************************************************************************)

\* What a difference modulo the width says of the numbers it is of.
LEMMA Difference ==
  ASSUME NEW v \in Word, NEW w \in Word
  PROVE  /\ (v - w) % Modulus \in Word
         /\ v >= w => (v - w) % Modulus = v - w
         /\ v < w => (v - w) % Modulus = (v - w) + Modulus
<1>1. /\ v \in Nat /\ w \in Nat /\ v < Modulus /\ w < Modulus /\ Modulus \in Nat \ {0}
  BY WordFacts
<1>2. (v - w) % Modulus \in 0 .. Modulus - 1
  BY <1>1
<1>3. v >= w => (v - w) % Modulus = v - w
  BY <1>1
<1>4. v < w => (v - w) % Modulus = (v - w) + Modulus
  BY <1>1
<1> QED
  BY <1>2, <1>3, <1>4 DEF Word

\* After cmp the relation printed is the one that the processor decides, for every
\* branch and all operands.
LEMMA CmpHolds ==
  ASSUME CInv, Readable, setter = "cmp", NEW m \in Mnemonics
  PROVE  Holds(m)
<1> DEFINE v == held[1]
           w == held[2]
           d == (v - w) % Modulus
<1>1. v \in Word /\ w \in Word
  BY DEF CInv
<1>2. C.kind = "cmp" /\ flags = CmpFlags(v, w)
  BY DEF CInv, FlagsInv
<1>3. Says(C.left) = v /\ Says(RightHand(C, m)) = w
  BY <1>2 DEF Readable, RightHand, ZeroTest
<1>4. /\ flags.zf = (d = 0)
      /\ flags.sf = (Signed(d) < 0)
      /\ flags.of = (Signed(v) - Signed(w) # Signed(d))
      /\ flags.cf = (v < w)
  BY <1>2 DEF CmpFlags, ResultFlags, Negative
<1>5. /\ d \in Word
      /\ v >= w => d = v - w
      /\ v < w => d = (v - w) + Modulus
  BY <1>1, Difference
<1> HIDE DEF d, v, w
<1>6. /\ v \in Nat /\ w \in Nat /\ d \in Nat
      /\ v < 2 * Half /\ w < 2 * Half /\ d < 2 * Half
      /\ Modulus = 2 * Half /\ Half \in Nat \ {0}
  BY <1>1, <1>5, WordFacts
<1>7. /\ (d = 0) = (v = w)
      /\ ((Signed(d) < 0) # (Signed(v) - Signed(w) # Signed(d))) = (Signed(v) < Signed(w))
  BY <1>5, <1>6 DEF Signed
<1>8. /\ flags.zf = (v = w)
      /\ flags.zf \in BOOLEAN /\ flags.cf \in BOOLEAN
  BY <1>4, <1>7
<1>9. (flags.sf # flags.of) = (Signed(v) < Signed(w))
  BY <1>4, <1>7
<1>10. /\ (Signed(v) = Signed(w)) = (v = w)
       /\ Signed(v) \in Int /\ Signed(w) \in Int
  BY <1>6 DEF Signed
<1>11. /\ m = "je"  => Reads(C, m) = (v = w)
       /\ m = "jne" => Reads(C, m) = (v # w)
       /\ m = "jl"  => Reads(C, m) = (Signed(v) < Signed(w))
       /\ m = "jle" => Reads(C, m) = (Signed(v) <= Signed(w))
       /\ m = "jg"  => Reads(C, m) = (Signed(v) > Signed(w))
       /\ m = "jge" => Reads(C, m) = (Signed(v) >= Signed(w))
       /\ m = "jb"  => Reads(C, m) = (v < w)
       /\ m = "jbe" => Reads(C, m) = (v <= w)
       /\ m = "ja"  => Reads(C, m) = (v > w)
       /\ m = "jae" => Reads(C, m) = (v >= w)
  BY <1>3 DEF Reads, Relation
<1> DEFINE equal == v = w
           less  == Signed(v) < Signed(w)
           below == v < w
<1>12. /\ m = "je"  => Taken(m) = equal
       /\ m = "jne" => Taken(m) = ~equal
       /\ m = "jl"  => Taken(m) = less
       /\ m = "jle" => Taken(m) = (equal \/ less)
       /\ m = "jg"  => Taken(m) = (~equal /\ ~less)
       /\ m = "jge" => Taken(m) = ~less
       /\ m = "jb"  => Taken(m) = below
       /\ m = "jbe" => Taken(m) = (below \/ equal)
       /\ m = "ja"  => Taken(m) = (~below /\ ~equal)
       /\ m = "jae" => Taken(m) = ~below
  <2>1. flags.zf = equal /\ flags.cf = below /\ (flags.sf # flags.of) = less
    BY <1>4, <1>8, <1>9
  <2>2. (flags.sf = flags.of) = ~less
    BY <2>1
  <2> HIDE DEF equal, less, below
  <2> QED
    BY <2>1, <2>2 DEF Taken
<1>13. /\ (Signed(v) <= Signed(w)) = (equal \/ less)
       /\ (Signed(v) > Signed(w)) = (~equal /\ ~less)
       /\ (Signed(v) >= Signed(w)) = ~less
       /\ (v <= w) = (below \/ equal)
       /\ (v > w) = (~below /\ ~equal)
       /\ (v >= w) = ~below
  BY <1>6, <1>10
<1> QED
  BY <1>11, <1>12, <1>13 DEF Holds, Mnemonics

\* After a register is tested against itself, je and jne are about its being zero.
LEMMA TestHolds ==
  ASSUME CInv, Readable, setter = "test", C.kind = "test", C.left = C.right, NEW m \in {"je", "jne"}
  PROVE  Holds(m)
<1> DEFINE v == held[1]
<1>1. v \in Word /\ held[2] = v
  BY DEF CInv, Readable
<1>2. flags = TestFlags(v, v)
  BY <1>1 DEF CInv, FlagsInv
<1>3. Says(C.left) = v /\ Says(RightHand(C, m)) = 0
  BY NumberSaysItself, WordFacts DEF Readable, RightHand, ZeroTest
<1>4. flags.zf = (v = 0)
  BY <1>1, <1>2, AndSelf DEF TestFlags, ResultFlags
<1> HIDE DEF v
<1>5. CASE m = "je"
  BY <1>3, <1>4, <1>5 DEF Holds, Reads, Relation, Taken
<1>6. CASE m = "jne"
  BY <1>3, <1>4, <1>6 DEF Holds, Reads, Relation, Taken
<1> QED
  BY <1>5, <1>6

-----------------------------------------------------------------------------
\* A printed condition reads as the processor decides, at every width and after any
\* instructions, while the comparison is what set the flags.
THEOREM ConditionsAreRight == Spec => []ConditionsHold
<1>1. CInv => ConditionsHold
  <2> SUFFICES ASSUME CInv, Readable, setter = C.kind
               PROVE  /\ C.kind = "cmp" => \A m \in Mnemonics : Holds(m)
                      /\ C.kind = "test" /\ C.left = C.right => Holds("je") /\ Holds("jne")
    BY DEF ConditionsHold
  <2> QED
    BY CmpHolds, TestHolds
<1> QED
  BY InitCInv, StepCInv, <1>1, PTL DEF Spec
=============================================================================
