-------------------------- MODULE NativeLiftProofs --------------------------
(***************************************************************************)
(* Proofs about the recovery of a native function and what is printed of   *)
(* it, for every function, instruction set, register file, width and limit. *)
(*                                                                         *)
(* First the graph and the text (NativeCfg, ReadableText, Search): the     *)
(* inductive invariant IInv says, beside the types, how the locals of an   *)
(* iteration relate to the blocks already pushed.  Then the values         *)
(* (NativeLift): what is printed for a register is what it holds.  A step  *)
(* is one of the recovery, whose theorems say what the graph is; one of    *)
(* the analysis, which LiftProofs, instantiated with that graph, says to   *)
(* solve its equations; or one of the machine, which then runs beside the  *)
(* solution: where it stands, the state that the solution has there says   *)
(* what its registers hold (SoundInv).                                     *)
(***************************************************************************)
EXTENDS NativeLift, ReadableText, FiniteSetTheorems, WellFoundedInduction, TLAPS

Last(s) == s[Len(s)]

\* What `successors' must be for a block that ends with the instruction at a:
\* a target at address 0 may be missing, and the limit may cut the block.
Edges(succs, a) ==
  \/ /\ succs \subseteq Flow(a)
     /\ \A t \in Flow(a) : t \in succs \/ t = 0
  \/ /\ total >= MaxInstructions
     /\ code[a].control \notin Transfers
     /\ succs = {}

Chain(s, b) ==
  /\ s[1] = b
  /\ \A i \in 1 .. Len(s) - 1 : /\ code[s[i]].control \notin Transfers
                                /\ s[i + 1] = NextIp(s[i])

\* The locals while a block is decoded, and when it is about to be pushed.
LocalsInv ==
  /\ pc \in {"pop", "done"} => instructions = <<>> /\ successors = {}
  /\ pc = "decode" =>
       /\ successors = {}
       /\ block_start \in Addresses
       /\ ip \in Addresses
       /\ instructions = <<>> => ip = block_start /\ total < MaxInstructions
       /\ instructions # <<>> => /\ code[Last(instructions)].control \notin Transfers
                                 /\ ip = NextIp(Last(instructions))
  /\ pc = "finish" =>
       /\ block_start \in Addresses
       /\ \E a, b \in Addresses : successors \subseteq {a, b}
       /\ instructions = <<>> => /\ successors = {block_start}
                                 /\ block_start \in decoded
       /\ instructions # <<>> => Edges(successors, Last(instructions))

ChainInv ==
  /\ \A b \in DOMAIN blocks : Chain(blocks[b].instructions, b)
  /\ instructions # <<>> => Chain(instructions, block_start)

EdgesInv == \A b \in DOMAIN blocks : Edges(blocks[b].successors, LastOf(b))

HeldInv ==
  /\ \A a \in Addresses :
       a \in decoded <=> \/ \E b \in DOMAIN blocks : a \in Held(b)
                         \/ a \in Elements(instructions)
  /\ \A b \in DOMAIN blocks : Held(b) \cap Elements(instructions) = {}
  /\ \A b, c \in DOMAIN blocks : b # c => Held(b) \cap Held(c) = {}

\* Everything queued is decoded or has its turn to come.
QueueInv ==
  /\ FunctionStart \in queued
  /\ DOMAIN blocks \subseteq queued
  /\ pc \in {"decode", "finish"} => block_start \in queued
  /\ \A b \in DOMAIN blocks : blocks[b].successors \subseteq queued
  /\ pc = "done" => pending = <<>> \/ LimitReached
  /\ pc # "done" \/ ~LimitReached =>
       \A q \in queued : \/ q \notin Addresses
                         \/ q \in decoded
                         \/ q \in Elements(pending)
                         \/ pc = "decode" /\ instructions = <<>> /\ q = ip

\* Nothing is touched that control cannot reach.
LeastInv ==
  \A S \in SUBSET Addresses : Closed(S) =>
    /\ decoded \subseteq S
    /\ queued \cap Addresses \subseteq S
    /\ successors \subseteq S
    /\ pc = "decode" => ip \in S

IInv == /\ TypeOK
        /\ LocalsInv
        /\ ChainInv
        /\ EdgesInv
        /\ HeldInv
        /\ StartsOnce
        /\ QueueInv
        /\ LeastInv

-----------------------------------------------------------------------------
(***************************************************************************)
(* Sequences and short sets.                                               *)
(***************************************************************************)

\* The least and the largest number of a bounded set of numbers.
LEMMA Least ==
  ASSUME NEW S \in SUBSET Nat, S # {}
  PROVE  \E x \in S : \A y \in S : x <= y
<1>1. PICK x \in S : \A y \in S : ~(<<y, x>> \in OpToRel(<, Nat))
  BY NatLessThanWellFounded, WFMin
<1>2. \A y \in S : ~(y < x)
  BY <1>1 DEF OpToRel
<1> QED
  BY <1>2

LEMMA Largest ==
  ASSUME NEW n \in Nat, NEW S \in SUBSET (0 .. n), S # {}
  PROVE  \E x \in S : \A y \in S : y <= x
<1> DEFINE T == {n - x : x \in S}
<1>1. T \in SUBSET Nat /\ T # {}
  <2>1. \A x \in S : n - x \in Nat
    OBVIOUS
  <2> QED
    BY <2>1
<1>2. PICK t \in T : \A u \in T : t <= u
  BY <1>1, Least
<1>3. PICK x \in S : t = n - x
  OBVIOUS
<1>4. ASSUME NEW y \in S PROVE y <= x
  <2>1. n - x <= n - y
    BY <1>2, <1>3
  <2> QED
    BY <2>1
<1> QED
  BY <1>4

\* VecDeque::pop_front removes the head and nothing else.
LEMMA ElementsOfTail ==
  ASSUME NEW T, NEW s \in Seq(T), s # <<>>
  PROVE  /\ Head(s) = s[1]
         /\ Head(s) \in Elements(s)
         /\ Elements(s) = {Head(s)} \cup Elements(Tail(s))
         /\ Tail(s) \in Seq(T)
         /\ Len(Tail(s)) = Len(s) - 1
         /\ \A i \in 1 .. Len(Tail(s)) : Tail(s)[i] = s[i + 1]
<1>1. /\ Len(s) \in Nat \ {0}
      /\ Head(s) = s[1]
      /\ Tail(s) \in Seq(T)
      /\ Len(Tail(s)) = Len(s) - 1
      /\ \A i \in 1 .. Len(Tail(s)) : Tail(s)[i] = s[i + 1]
  OBVIOUS
<1>2. Elements(s) \subseteq {Head(s)} \cup Elements(Tail(s))
  <2>1. SUFFICES ASSUME NEW i \in 1 .. Len(s), i # 1
                 PROVE  s[i] \in Elements(Tail(s))
    BY <1>1 DEF Elements
  <2>2. i - 1 \in 1 .. Len(Tail(s)) /\ Tail(s)[i - 1] = s[i]
    <3>1. i - 1 \in 1 .. Len(Tail(s)) /\ (i - 1) + 1 = i
      BY <1>1, <2>1
    <3> QED
      BY <1>1, <3>1
  <2> QED
    BY <2>2 DEF Elements
<1>3. {Head(s)} \cup Elements(Tail(s)) \subseteq Elements(s)
  <2>1. ASSUME NEW i \in 1 .. Len(Tail(s)) PROVE Tail(s)[i] \in Elements(s)
    BY <1>1, i + 1 \in 1 .. Len(s) DEF Elements
  <2>2. Head(s) \in Elements(s)
    BY <1>1, 1 \in 1 .. Len(s) DEF Elements
  <2> QED
    BY <2>1, <2>2 DEF Elements
<1> QED
  BY <1>1, <1>2, <1>3

\* Vec::push adds one element at the end.
LEMMA ElementsOfAppend ==
  ASSUME NEW T, NEW s \in Seq(T), NEW e \in T
  PROVE  /\ Append(s, e) \in Seq(T)
         /\ Append(s, e) # <<>>
         /\ Len(Append(s, e)) = Len(s) + 1
         /\ Last(Append(s, e)) = e
         /\ \A i \in 1 .. Len(s) : Append(s, e)[i] = s[i]
         /\ Elements(Append(s, e)) = Elements(s) \cup {e}
<1> DEFINE t == Append(s, e)
<1>1. /\ Len(s) \in Nat
      /\ t \in Seq(T)
      /\ Len(t) = Len(s) + 1
      /\ \A i \in 1 .. Len(s) : t[i] = s[i]
      /\ t[Len(s) + 1] = e
  OBVIOUS
<1>2. t # <<>> /\ Last(t) = e
  BY <1>1 DEF Last
<1>3. \A i \in 1 .. Len(t) : i \in 1 .. Len(s) \/ i = Len(s) + 1
  BY <1>1
<1>4. \A i \in 1 .. Len(s) : i \in 1 .. Len(t)
  BY <1>1
<1>5. Len(s) + 1 \in 1 .. Len(t)
  BY <1>1
<1>6. Elements(t) = Elements(s) \cup {e}
  BY <1>1, <1>3, <1>4, <1>5 DEF Elements
<1> HIDE DEF t
<1> QED
  BY <1>1, <1>2, <1>6 DEF t

\* A sequence over a set is a sequence over every larger one.
LEMMA SeqMonotonic ==
  ASSUME NEW S, NEW T, S \subseteq T, NEW s \in Seq(S)
  PROVE  s \in Seq(T)
OBVIOUS

\* Joining two lists without repetition and without a common element.
LEMMA ElementsOfConcat ==
  ASSUME NEW T, NEW s \in Seq(T), NEW u \in Seq(T)
  PROVE  /\ s \o u \in Seq(T)
         /\ Elements(s \o u) = Elements(s) \cup Elements(u)
         /\ /\ \A i, j \in 1 .. Len(s) : s[i] = s[j] => i = j
            /\ \A i, j \in 1 .. Len(u) : u[i] = u[j] => i = j
            /\ Elements(s) \cap Elements(u) = {}
            => \A i, j \in 1 .. Len(s \o u) : (s \o u)[i] = (s \o u)[j] => i = j
<1> DEFINE t == s \o u
<1>1. /\ Len(s) \in Nat /\ Len(u) \in Nat
      /\ t \in Seq(T)
      /\ Len(t) = Len(s) + Len(u)
      /\ \A i \in 1 .. Len(s) : t[i] = s[i]
      /\ \A i \in Len(s) + 1 .. Len(s) + Len(u) : t[i] = u[i - Len(s)]
  OBVIOUS
<1>2. \A i \in 1 .. Len(t) : \/ i \in 1 .. Len(s) /\ t[i] = s[i]
                             \/ /\ i - Len(s) \in 1 .. Len(u)
                                /\ t[i] = u[i - Len(s)]
  BY <1>1
<1>3. \A i \in 1 .. Len(s) : i \in 1 .. Len(t) /\ t[i] = s[i]
  BY <1>1
<1>4. \A i \in 1 .. Len(u) : i + Len(s) \in 1 .. Len(t) /\ t[i + Len(s)] = u[i]
  BY <1>1
<1>5. Elements(t) = Elements(s) \cup Elements(u)
  <2>1. Elements(t) \subseteq Elements(s) \cup Elements(u)
    BY <1>2 DEF Elements
  <2>2. Elements(s) \subseteq Elements(t)
    BY <1>3 DEF Elements
  <2>3. Elements(u) \subseteq Elements(t)
    BY <1>4 DEF Elements
  <2> QED
    BY <2>1, <2>2, <2>3
<1>6. ASSUME \A i, j \in 1 .. Len(s) : s[i] = s[j] => i = j,
             \A i, j \in 1 .. Len(u) : u[i] = u[j] => i = j,
             Elements(s) \cap Elements(u) = {},
             NEW i \in 1 .. Len(t), NEW j \in 1 .. Len(t), t[i] = t[j]
      PROVE  i = j
  <2>1. \A k \in 1 .. Len(s), l \in 1 .. Len(u) : s[k] # u[l]
    <3>1. \A k \in 1 .. Len(s) : s[k] \in Elements(s)
      BY DEF Elements
    <3>2. \A l \in 1 .. Len(u) : u[l] \in Elements(u)
      BY DEF Elements
    <3> QED
      BY <1>6, <3>1, <3>2
  <2>2. CASE i \in 1 .. Len(s) /\ t[i] = s[i]
    <3>1. CASE j \in 1 .. Len(s) /\ t[j] = s[j]
      BY <1>6, <2>2, <3>1
    <3>2. CASE j - Len(s) \in 1 .. Len(u) /\ t[j] = u[j - Len(s)]
      BY <1>6, <2>1, <2>2, <3>2
    <3> QED
      BY <1>2, <1>6, <3>1, <3>2
  <2>3. CASE i - Len(s) \in 1 .. Len(u) /\ t[i] = u[i - Len(s)]
    <3>1. CASE j \in 1 .. Len(s) /\ t[j] = s[j]
      BY <1>6, <2>1, <2>3, <3>1
    <3>2. CASE j - Len(s) \in 1 .. Len(u) /\ t[j] = u[j - Len(s)]
      <4>1. i - Len(s) = j - Len(s)
        BY <1>6, <2>3, <3>2
      <4> QED
        BY <1>1, <4>1
    <3> QED
      BY <1>2, <3>1, <3>2
  <2> QED
    BY <1>2, <2>2, <2>3
<1> HIDE DEF t
<1> QED
  BY <1>1, <1>5, <1>6 DEF t

\* The list of at most two successors is the set of them, each once.
LEMMA AscendingLists ==
  ASSUME NEW a \in Nat, NEW b \in Nat, NEW S \in SUBSET {a, b}
  PROVE  /\ Ascending(S) \in Seq(S)
         /\ Elements(Ascending(S)) = S
         /\ \A i, j \in 1 .. Len(Ascending(S)) :
              Ascending(S)[i] = Ascending(S)[j] => i = j
<1> DEFINE lo == CHOOSE x \in S : \A y \in S : x <= y
           hi == CHOOSE x \in S : \A y \in S : y <= x
<1>1. CASE S = {}
  <2>1. Ascending(S) = <<>>
    BY <1>1 DEF Ascending
  <2> QED
    BY <2>1, <1>1 DEF Elements
<1>2. CASE S # {}
  <2>0. PICK l \in S, h \in S : S = {l, h} /\ l <= h
    <3>1. S = {a} \/ S = {b} \/ S = {a, b}
      BY <1>2
    <3>2. CASE S = {a}
      BY <3>2
    <3>3. CASE S = {b}
      BY <3>3
    <3>4. CASE S = {a, b}
      <4>1. a <= b \/ b <= a
        OBVIOUS
      <4> QED
        BY <3>4, <4>1
    <3> QED
      BY <3>1, <3>2, <3>3, <3>4
  <2>1. l \in Nat /\ h \in Nat
    OBVIOUS
  <2>2. \A y \in S : l <= y /\ y <= h
    BY <2>0, <2>1
  <2>3. lo \in S /\ \A y \in S : lo <= y
    BY <2>2
  <2>4. hi \in S /\ \A y \in S : y <= hi
    BY <2>2
  <2>5. S = {lo, hi}
    <3>1. lo = l
      <4> HIDE DEF lo, hi
      <4> QED
        BY <2>1, <2>2, <2>3
    <3>2. hi = h
      <4> HIDE DEF lo, hi
      <4> QED
        BY <2>1, <2>2, <2>4
    <3> QED
      BY <2>0, <3>1, <3>2
  <2>6. CASE lo = hi
    <3>1. Ascending(S) = <<lo>>
      BY <1>2, <2>6 DEF Ascending
    <3> HIDE DEF lo, hi
    <3> QED
      BY <3>1, <2>5, <2>6 DEF Elements
  <2>7. CASE lo # hi
    <3>1. Ascending(S) = <<lo, hi>>
      BY <1>2, <2>7 DEF Ascending
    <3> HIDE DEF lo, hi
    <3>2. Elements(<<lo, hi>>) = {lo, hi}
      BY DEF Elements
    <3> QED
      BY <3>1, <3>2, <2>5, <2>7
  <2> QED
    BY <2>6, <2>7
<1> QED
  BY <1>1, <1>2

-----------------------------------------------------------------------------
(***************************************************************************)
(* The functions of an address.                                            *)
(***************************************************************************)

\* The decoder moves forward and stays inside the function's bytes; what a
\* block may push lies in the function and is a place control really goes to.
LEMMA FlowFacts ==
  ASSUME TypeOK, NEW a \in Addresses
  PROVE  /\ NextIp(a) \in FunctionStart .. End
         /\ NextIp(a) > a
         /\ NextIp(a) < End => NextIp(a) \in Addresses
         /\ Pushed(a) \subseteq Flow(a)
         /\ Flow(a) \subseteq Addresses
         /\ \E b, c \in Addresses : Pushed(a) \subseteq {b, c}
         /\ code[a].control \in Controls
<1>1. /\ FunctionStart \in Nat /\ size \in Nat /\ End \in Nat
      /\ a \in Nat /\ FunctionStart <= a /\ a < End
  BY FunctionAssumption DEF TypeOK, Addresses, End
<1>2. /\ code \in [FunctionStart .. FunctionStart + size - 1 -> Instructions]
      /\ \A x \in DOMAIN code : x + code[x].length <= FunctionStart + size
  BY DEF TypeOK, Programs
<1>3. /\ code[a] \in Instructions
      /\ a + code[a].length <= End
  <2>1. a \in FunctionStart .. FunctionStart + size - 1
    BY <1>1 DEF End
  <2> QED
    BY <1>2, <2>1 DEF End
<1>4. /\ code[a].length \in Nat \ {0}
      /\ code[a].branch \in Nat \cup {NoTarget}
      /\ code[a].control \in Controls
  BY <1>3, InstructionAssumption
<1>5. NextIp(a) \in FunctionStart .. End /\ NextIp(a) > a
  BY <1>1, <1>3, <1>4 DEF NextIp
<1>6. NextIp(a) < End => NextIp(a) \in Addresses
  BY <1>1, <1>5 DEF Addresses
<1>7. BranchTarget(a) \subseteq {code[a].branch} \cap Addresses
  <2>1. CASE code[a].branch = NoTarget
    BY <2>1 DEF BranchTarget
  <2>2. CASE code[a].branch # NoTarget
    BY <2>2 DEF BranchTarget
  <2> QED
    BY <2>1, <2>2
<1>8. Pushed(a) \subseteq Flow(a)
  BY <1>7 DEF Pushed, Flow
<1>9. Flow(a) \subseteq Addresses
  BY DEF Flow
<1>10. \E b, c \in Addresses : Pushed(a) \subseteq {b, c}
  <2>1. Pushed(a) \subseteq ({code[a].branch} \cap Addresses) \cup ({NextIp(a)} \cap Addresses)
    BY <1>7 DEF Pushed
  <2>2. PICK b \in Addresses : {code[a].branch} \cap Addresses \subseteq {b}
    OBVIOUS
  <2>3. PICK c \in Addresses : {NextIp(a)} \cap Addresses \subseteq {c}
    OBVIOUS
  <2> QED
    BY <2>1, <2>2, <2>3
<1> QED
  BY <1>4, <1>5, <1>6, <1>8, <1>9, <1>10

\* What the match on `control' pushes at the end of a block: for a transfer,
\* all the places control goes to but address 0; for the rest nothing, and
\* control goes to the next instruction if there is one.
LEMMA PushedIsFlow ==
  ASSUME TypeOK, NEW a \in Addresses
  PROVE  /\ code[a].control \in Transfers =>
              \A t \in Flow(a) : t \in Pushed(a) \/ t = 0
         /\ code[a].control \notin Transfers =>
              /\ Pushed(a) = {}
              /\ Flow(a) = {NextIp(a)} \cap Addresses
<1>1. code[a].control \in Controls
  BY FlowFacts
<1>2. \A t \in {code[a].branch} \cap Addresses : t \in BranchTarget(a) \/ t = 0
  <2>1. SUFFICES ASSUME code[a].branch \in Addresses, code[a].branch # 0
                 PROVE  code[a].branch \in BranchTarget(a)
    OBVIOUS
  <2>2. code[a].branch # NoTarget
    BY <2>1, FunctionAssumption DEF Addresses, NoTarget
  <2> QED
    BY <2>1, <2>2 DEF BranchTarget
<1>3. CASE code[a].control = "jump"
  BY <1>2, <1>3 DEF Pushed, Flow, Transfers
<1>4. CASE code[a].control = "conditional"
  BY <1>2, <1>4 DEF Pushed, Flow, Transfers
<1>5. CASE code[a].control = "return"
  BY <1>5 DEF Pushed, Flow, Transfers
<1>6. CASE code[a].control \in {"next", "call"}
  BY <1>6 DEF Pushed, Flow, Transfers
<1> QED
  BY <1>1, <1>3, <1>4, <1>5, <1>6 DEF Controls

-----------------------------------------------------------------------------
(***************************************************************************)
(* The inductive invariant: initially.                                     *)
(***************************************************************************)
LEMMA InitIInv == Init => IInv
<1> SUFFICES ASSUME Init PROVE IInv
  OBVIOUS
<1> USE DEF Init
<1>1. size \in Nat /\ End = FunctionStart + size /\ FunctionStart \in FunctionStart .. End
  BY FunctionAssumption DEF End
<1>2. TypeOK
  <2>1. pending \in Seq(queued)
    OBVIOUS
  <2>2. total \in 0 .. MaxInstructions
    BY LimitAssumption
  <2> QED
    BY <1>1, <2>1, <2>2 DEF TypeOK
<1>3. LocalsInv
  BY DEF LocalsInv
<1>4. ChainInv /\ EdgesInv
  BY DEF ChainInv, EdgesInv
<1>5. HeldInv
  BY DEF HeldInv, Elements
<1>6. StartsOnce
  BY DEF StartsOnce
<1>7. QueueInv
  <2>1. FunctionStart \in Elements(pending)
    BY DEF Elements
  <2> QED
    BY <2>1 DEF QueueInv
<1>8. LeastInv
  BY DEF LeastInv, Closed
<1> QED
  BY <1>2, <1>3, <1>4, <1>5, <1>6, <1>7, <1>8 DEF IInv

-----------------------------------------------------------------------------
(***************************************************************************)
(* The inductive invariant: the steps of the outer loop before a block.    *)
(***************************************************************************)

\* Leaving the outer loop, because the work list is empty or a limit is reached.
LEMMA LeavePreserves ==
  ASSUME IInv, WorkListEmpty \/ StopAtLimit
  PROVE  IInv'
<1> USE DEF IInv
<1>0. /\ UNCHANGED <<size, code, queued, decoded, blocks, total,
                     block_start, ip, instructions, successors>>
      /\ pc = "pop" /\ pc' = "done"
  BY DEF WorkListEmpty, StopAtLimit, locals
<1>1. /\ pending' \in Seq(queued)
      /\ Elements(pending') \subseteq Elements(pending)
      /\ \A i, j \in 1 .. Len(pending') : pending'[i] = pending'[j] => i = j
      /\ pending' = <<>> \/ LimitReached
  <2>1. CASE WorkListEmpty
    BY <2>1 DEF WorkListEmpty, TypeOK, StartsOnce, Elements
  <2>2. CASE StopAtLimit
    <3>1. pending \in Seq(queued) /\ pending # <<>> /\ pending' = Tail(pending) /\ LimitReached
      BY <2>2 DEF StopAtLimit, TypeOK
    <3>2. \A i, j \in 1 .. Len(pending') : pending'[i] = pending'[j] => i = j
      BY <3>1, ElementsOfTail DEF StartsOnce
    <3> QED
      BY <3>1, <3>2, ElementsOfTail
  <2> QED
    BY <2>1, <2>2
<1>2. TypeOK'
  BY <1>0, <1>1 DEF TypeOK, Addresses, End, Programs
<1>3. LocalsInv'
  BY <1>0 DEF LocalsInv
<1>4. ChainInv' /\ EdgesInv'
  BY <1>0 DEF ChainInv, EdgesInv, Chain, Edges, Flow, NextIp, Addresses, End, LastOf
<1>5. HeldInv'
  <2>1. \A b : Held(b)' = Held(b)
    BY <1>0 DEF Held, Elements
  <2>2. Elements(instructions)' = Elements(instructions)
    BY <1>0 DEF Elements
  <2>3. Addresses' = Addresses
    BY <1>0 DEF Addresses, End
  <2> QED
    BY <1>0, <2>1, <2>2, <2>3 DEF HeldInv
<1>6. StartsOnce'
  BY <1>0, <1>1 DEF StartsOnce, Elements
<1>7. QueueInv'
  <2>1. CASE LimitReached
    BY <1>0, <2>1 DEF QueueInv, LimitReached
  <2>2. CASE ~LimitReached
    <3>1. WorkListEmpty /\ pending' = pending /\ pending = <<>>
      BY <2>2 DEF StopAtLimit, WorkListEmpty
    <3> QED
      BY <1>0, <2>2, <3>1 DEF QueueInv, LimitReached, Elements, Addresses, End
  <2> QED
    BY <2>1, <2>2
<1>8. LeastInv'
  BY <1>0 DEF LeastInv, Closed, Flow, NextIp, Addresses, End
<1> QED
  BY <1>2, <1>3, <1>4, <1>5, <1>6, <1>7, <1>8

\* Popping a start that lies outside the function.
LEMMA SkipPreserves ==
  ASSUME IInv, SkipOutside
  PROVE  IInv'
<1> USE DEF IInv
<1>0. /\ UNCHANGED <<size, code, queued, decoded, blocks, total, pc,
                     block_start, ip, instructions, successors>>
      /\ pc = "pop"
      /\ pending \in Seq(queued) /\ pending # <<>>
      /\ pending' = Tail(pending)
      /\ Head(pending) \notin Addresses
  BY DEF SkipOutside, locals, TypeOK
<1>1. /\ pending' \in Seq(queued)
      /\ Elements(pending) = {Head(pending)} \cup Elements(pending')
  BY <1>0, ElementsOfTail
<1>2. TypeOK'
  BY <1>0, <1>1 DEF TypeOK, Addresses, End, Programs
<1>3. LocalsInv'
  BY <1>0 DEF LocalsInv
<1>4. ChainInv' /\ EdgesInv'
  BY <1>0 DEF ChainInv, EdgesInv, Chain, Edges, Flow, NextIp, Addresses, End, LastOf
<1>5. HeldInv'
  <2>1. \A b : Held(b)' = Held(b)
    BY <1>0 DEF Held, Elements
  <2>2. Elements(instructions)' = Elements(instructions)
    BY <1>0 DEF Elements
  <2>3. Addresses' = Addresses
    BY <1>0 DEF Addresses, End
  <2> QED
    BY <1>0, <2>1, <2>2, <2>3 DEF HeldInv
<1>6. StartsOnce'
  <2>1. \A i, j \in 1 .. Len(pending') : pending'[i] = pending'[j] => i = j
    BY <1>0, ElementsOfTail DEF StartsOnce
  <2>2. Elements(pending') \cap DOMAIN blocks = {}
    BY <1>1 DEF StartsOnce
  <2> QED
    BY <1>0, <2>1, <2>2 DEF StartsOnce, Elements
<1>7. QueueInv'
  <2>1. \A q \in queued : q \notin Addresses \/ q \in decoded \/ q \in Elements(pending')
    BY <1>0, <1>1 DEF QueueInv
  <2> QED
    BY <1>0, <2>1 DEF QueueInv, LimitReached, Addresses, End, Elements
<1>8. LeastInv'
  BY <1>0 DEF LeastInv, Closed, Flow, NextIp, Addresses, End
<1> QED
  BY <1>2, <1>3, <1>4, <1>5, <1>6, <1>7, <1>8

\* Beginning a block: its start leaves the work list and is still undecoded,
\* or is an address some other block already holds.
LEMMA BeginPreserves ==
  ASSUME IInv, BeginBlock
  PROVE  IInv'
<1> USE DEF IInv
<1>0. /\ UNCHANGED <<size, code, queued, decoded, blocks, total>>
      /\ pc = "pop" /\ pc' = "decode"
      /\ pending \in Seq(queued) /\ pending # <<>>
      /\ pending' = Tail(pending)
      /\ Head(pending) \in Addresses
      /\ block_start' = Head(pending) /\ ip' = Head(pending)
      /\ instructions' = <<>> /\ successors' = {}
      /\ instructions = <<>>
      /\ total < MaxInstructions
  BY LimitAssumption DEF BeginBlock, TypeOK, LocalsInv, LimitReached
<1>1. /\ pending' \in Seq(queued)
      /\ Elements(pending) = {Head(pending)} \cup Elements(pending')
      /\ Head(pending) \in queued
  <2>1. Elements(pending) \subseteq queued
    BY <1>0 DEF Elements
  <2> QED
    BY <1>0, <2>1, ElementsOfTail
<1>2. Addresses' = Addresses /\ End' = End
  BY <1>0 DEF Addresses, End
<1>3. TypeOK'
  <2>1. Head(pending) \in FunctionStart .. End
    BY <1>0, FunctionAssumption DEF TypeOK, Addresses, End
  <2> QED
    BY <1>0, <1>1, <1>2, <2>1 DEF TypeOK, Programs
<1>4. LocalsInv'
  BY <1>0, <1>2 DEF LocalsInv
<1>5. ChainInv' /\ EdgesInv'
  BY <1>0 DEF ChainInv, EdgesInv, Chain, Edges, Flow, NextIp, Addresses, End, LastOf
<1>6. HeldInv'
  <2>1. \A b : Held(b)' = Held(b)
    BY <1>0 DEF Held, Elements
  <2>2. Elements(instructions)' = Elements(instructions)
    BY <1>0 DEF Elements
  <2> QED
    BY <1>0, <1>2, <2>1, <2>2 DEF HeldInv
<1>7. StartsOnce'
  <2>1. \A i, j \in 1 .. Len(pending') : pending'[i] = pending'[j] => i = j
    BY <1>0, ElementsOfTail DEF StartsOnce
  <2>2. Elements(pending') \cap DOMAIN blocks = {}
    BY <1>1 DEF StartsOnce
  <2>3. Head(pending) \notin Elements(pending')
    <3>1. SUFFICES ASSUME NEW i \in 1 .. Len(pending'), pending'[i] = Head(pending)
                   PROVE  FALSE
      BY DEF Elements
    <3>2. /\ Len(pending) \in Nat
          /\ Len(pending') = Len(pending) - 1
          /\ pending[1] = Head(pending) /\ pending'[i] = pending[i + 1]
      BY <1>0, ElementsOfTail
    <3>3. 1 \in 1 .. Len(pending) /\ i + 1 \in 1 .. Len(pending)
      BY <3>2
    <3>4. 1 = i + 1
      BY <3>1, <3>2, <3>3 DEF StartsOnce
    <3> QED
      BY <3>4
  <2>4. Head(pending) \notin DOMAIN blocks
    BY <1>1 DEF StartsOnce
  <2> QED
    BY <1>0, <2>1, <2>2, <2>3, <2>4 DEF StartsOnce, Elements
<1>8. QueueInv'
  <2>1. \A q \in queued : \/ q \notin Addresses \/ q \in decoded
                          \/ q \in Elements(pending') \/ q = ip'
    BY <1>0, <1>1 DEF QueueInv
  <2> QED
    BY <1>0, <1>1, <1>2, <2>1 DEF QueueInv, Elements
<1>9. LeastInv'
  BY <1>0, <1>1, <1>2 DEF LeastInv, Closed, Flow, NextIp
<1> QED
  BY <1>3, <1>4, <1>5, <1>6, <1>7, <1>8, <1>9

-----------------------------------------------------------------------------
(***************************************************************************)
(* The inductive invariant: the steps of the inner loop.                   *)
(***************************************************************************)

\* The inner loop stops: only the instruction limit can stop it there.
LEMMA StopDecodingPreserves ==
  ASSUME IInv, StopDecoding
  PROVE  IInv'
<1> USE DEF IInv
<1>0. /\ UNCHANGED <<size, code, pending, queued, decoded, blocks, total,
                     block_start, ip, instructions, successors>>
      /\ pc = "decode" /\ pc' = "finish"
      /\ ip \in Addresses /\ block_start \in Addresses
      /\ successors = {}
  BY DEF StopDecoding, LocalsInv, locals
<1>1. /\ total >= MaxInstructions
      /\ instructions # <<>>
      /\ code[Last(instructions)].control \notin Transfers
  <2>1. ~(ip >= End)
    BY <1>0, FunctionAssumption DEF TypeOK, Addresses, End
  <2>2. total >= MaxInstructions
    BY <2>1 DEF StopDecoding
  <2>3. instructions # <<>>
    BY <1>0, <2>2, LimitAssumption DEF TypeOK, LocalsInv
  <2> QED
    BY <1>0, <2>2, <2>3 DEF LocalsInv
<1>2. Addresses' = Addresses /\ End' = End
  BY <1>0 DEF Addresses, End
<1>3. TypeOK'
  BY <1>0, <1>2 DEF TypeOK, Programs
<1>4. LocalsInv'
  <2>1. Edges(successors, Last(instructions))'
    BY <1>0, <1>1 DEF Edges, Last
  <2>2. \E a, b \in Addresses' : successors' \subseteq {a, b}
    BY <1>0, <1>2
  <2> QED
    BY <1>0, <1>1, <1>2, <2>1, <2>2 DEF LocalsInv
<1>5. ChainInv' /\ EdgesInv'
  BY <1>0 DEF ChainInv, EdgesInv, Chain, Edges, Flow, NextIp, Addresses, End, LastOf
<1>6. HeldInv'
  <2>1. \A b : Held(b)' = Held(b)
    BY <1>0 DEF Held, Elements
  <2>2. Elements(instructions)' = Elements(instructions)
    BY <1>0 DEF Elements
  <2> QED
    BY <1>0, <1>2, <2>1, <2>2 DEF HeldInv
<1>7. StartsOnce'
  BY <1>0 DEF StartsOnce, Elements
<1>8. QueueInv'
  BY <1>0, <1>1, <1>2 DEF QueueInv, LimitReached, Elements
<1>9. LeastInv'
  BY <1>0, <1>2 DEF LeastInv, Closed, Flow, NextIp
<1> QED
  BY <1>3, <1>4, <1>5, <1>6, <1>7, <1>8, <1>9

\* The block falls into an instruction that is already decoded.
LEMMA JoinPreserves ==
  ASSUME IInv, JoinDecoded
  PROVE  IInv'
<1> USE DEF IInv
<1>0. /\ UNCHANGED <<size, code, pending, queued, decoded, blocks, total,
                     block_start, ip, instructions>>
      /\ pc = "decode" /\ pc' = "finish"
      /\ ip \in Addresses /\ block_start \in Addresses
      /\ successors' = {ip}
      /\ ip \in decoded
  BY DEF JoinDecoded, LocalsInv, IsDecoded
<1>2. Addresses' = Addresses /\ End' = End
  BY <1>0 DEF Addresses, End
<1>3. TypeOK'
  BY <1>0, <1>2 DEF TypeOK, Programs
<1>4. LocalsInv'
  <2>1. \E a, b \in Addresses' : successors' \subseteq {a, b}
    BY <1>0, <1>2
  <2>2. CASE instructions = <<>>
    BY <1>0, <1>2, <2>1, <2>2 DEF LocalsInv
  <2>3. CASE instructions # <<>>
    <3>1. Last(instructions) \in Addresses
      BY <2>3 DEF TypeOK, Last
    <3>2. /\ code[Last(instructions)].control \notin Transfers
          /\ ip = NextIp(Last(instructions))
      BY <1>0, <2>3 DEF LocalsInv
    <3>3. Flow(Last(instructions)) = {ip}
      BY <1>0, <3>1, <3>2, PushedIsFlow
    <3>4. (Flow(Last(instructions)))' = Flow(Last(instructions))
      BY <1>0 DEF Flow, NextIp, Addresses, End, Last
    <3>5. Edges(successors, Last(instructions))'
      BY <1>0, <3>3, <3>4 DEF Edges
    <3> QED
      BY <1>0, <1>2, <2>1, <2>3, <3>5 DEF LocalsInv
  <2> QED
    BY <2>2, <2>3
<1>5. ChainInv' /\ EdgesInv'
  BY <1>0 DEF ChainInv, EdgesInv, Chain, Edges, Flow, NextIp, Addresses, End, LastOf
<1>6. HeldInv'
  <2>1. \A b : Held(b)' = Held(b)
    BY <1>0 DEF Held, Elements
  <2>2. Elements(instructions)' = Elements(instructions)
    BY <1>0 DEF Elements
  <2> QED
    BY <1>0, <1>2, <2>1, <2>2 DEF HeldInv
<1>7. StartsOnce'
  BY <1>0 DEF StartsOnce, Elements
<1>8. QueueInv'
  BY <1>0, <1>2 DEF QueueInv, LimitReached, Elements
<1>9. LeastInv'
  BY <1>0, <1>2 DEF LeastInv, Closed, Flow, NextIp
<1> QED
  BY <1>3, <1>4, <1>5, <1>6, <1>7, <1>8, <1>9

\* A new instruction joins the block.
LEMMA DecodePreserves ==
  ASSUME IInv, DecodeInstruction
  PROVE  IInv'
<1> USE DEF IInv
<1>0. /\ UNCHANGED <<size, code, pending, queued, blocks, block_start>>
      /\ pc = "decode"
      /\ ip \in Addresses /\ block_start \in Addresses
      /\ successors = {}
      /\ ip \notin decoded /\ decoded' = decoded \cup {ip}
      /\ total < MaxInstructions /\ total' = total + 1
      /\ instructions' = Append(instructions, ip)
      /\ successors' = Pushed(ip)
      /\ ip' = NextIp(ip)
      /\ pc' = IF code[ip].control \in Transfers \/ NextIp(ip) >= End
               THEN "finish" ELSE "decode"
      /\ instructions \in Seq(Addresses)
  BY DEF DecodeInstruction, LocalsInv, TypeOK, IsDecoded, EndsBlock, Transfers
<1>1. /\ instructions' \in Seq(Addresses)
      /\ instructions' # <<>>
      /\ Len(instructions) \in Nat
      /\ Len(instructions') = Len(instructions) + 1
      /\ Last(instructions') = ip
      /\ \A i \in 1 .. Len(instructions) : instructions'[i] = instructions[i]
      /\ Elements(instructions') = Elements(instructions) \cup {ip}
  BY <1>0, ElementsOfAppend
<1>2. Addresses' = Addresses /\ End' = End
  BY <1>0 DEF Addresses, End
<1>3. \A a : /\ NextIp(a)' = NextIp(a)
             /\ Flow(a)' = Flow(a)
  BY <1>0, <1>2 DEF NextIp, Flow
<1>4. /\ NextIp(ip) \in FunctionStart .. End
      /\ NextIp(ip) < End => NextIp(ip) \in Addresses
      /\ Pushed(ip) \subseteq Flow(ip)
      /\ Pushed(ip) \subseteq Addresses
      /\ \E b, c \in Addresses : Pushed(ip) \subseteq {b, c}
  BY <1>0, FlowFacts
<1>5. total \in Nat /\ total' \in 0 .. MaxInstructions
  BY <1>0, LimitAssumption DEF TypeOK
<1>6. ASSUME pc' = "decode" PROVE LocalsInv' /\ LeastInv'
  <2>1. /\ code[ip].control \notin Transfers
        /\ NextIp(ip) \in Addresses
        /\ Pushed(ip) = {}
        /\ Flow(ip) = {NextIp(ip)}
    <3>1. code[ip].control \notin Transfers /\ ~(NextIp(ip) >= End)
      BY <1>0, <1>6
    <3>2. NextIp(ip) < End
      BY <3>1, <1>4, FunctionAssumption DEF TypeOK, End
    <3> QED
      BY <1>0, <1>4, <3>1, <3>2, PushedIsFlow
  <2>2. LocalsInv'
    BY <1>0, <1>1, <1>2, <1>3, <1>6, <2>1 DEF LocalsInv
  <2>3. LeastInv'
    <3>1. ASSUME NEW S \in SUBSET Addresses, Closed(S)'
          PROVE  /\ decoded' \subseteq S
                 /\ (queued \cap Addresses) \subseteq S
                 /\ NextIp(ip) \in S
      <4>1. Closed(S)
        BY <1>2, <1>3, <3>1 DEF Closed
      <4>2. ip \in S /\ decoded \subseteq S /\ queued \cap Addresses \subseteq S
        BY <1>0, <4>1 DEF LeastInv
      <4>3. Flow(ip) \subseteq S
        BY <4>1, <4>2 DEF Closed
      <4> QED
        BY <1>0, <2>1, <4>2, <4>3
    <3> QED
      BY <1>0, <1>2, <2>1, <3>1 DEF LeastInv
  <2> QED
    BY <2>2, <2>3
<1>7. ASSUME pc' = "finish" PROVE LocalsInv' /\ LeastInv'
  <2>1. LocalsInv'
    <3>1. Edges(successors, Last(instructions))'
      <4>1. CASE code[ip].control \in Transfers
        BY <1>0, <1>1, <1>3, <1>4, <4>1, PushedIsFlow DEF Edges, Last
      <4>2. CASE code[ip].control \notin Transfers
        <5>1. NextIp(ip) >= End
          BY <1>0, <1>7, <4>2
        <5>2. NextIp(ip) \notin Addresses
          BY <1>4, <5>1, FunctionAssumption DEF TypeOK, Addresses, End
        <5>3. Flow(ip) = {}
          BY <1>0, <4>2, <5>2, PushedIsFlow
        <5>4. Pushed(ip) = {}
          BY <1>0, <4>2, PushedIsFlow
        <5> QED
          BY <1>0, <1>1, <1>3, <5>3, <5>4 DEF Edges, Last
      <4> QED
        BY <4>1, <4>2
    <3> QED
      BY <1>0, <1>1, <1>2, <1>4, <1>7, <3>1 DEF LocalsInv
  <2>2. LeastInv'
    <3>1. ASSUME NEW S \in SUBSET Addresses, Closed(S)'
          PROVE  /\ decoded' \subseteq S
                 /\ (queued \cap Addresses) \subseteq S
                 /\ Pushed(ip) \subseteq S
      <4>1. Closed(S)
        BY <1>2, <1>3, <3>1 DEF Closed
      <4>2. ip \in S /\ decoded \subseteq S /\ queued \cap Addresses \subseteq S
        BY <1>0, <4>1 DEF LeastInv
      <4>3. Flow(ip) \subseteq S
        BY <4>1, <4>2 DEF Closed
      <4> QED
        BY <1>0, <1>4, <4>2, <4>3
    <3> QED
      BY <1>0, <1>2, <1>7, <3>1 DEF LeastInv
  <2> QED
    BY <2>1, <2>2
<1>8. pc' = "decode" \/ pc' = "finish"
  BY <1>0
<1>9. TypeOK'
  BY <1>0, <1>1, <1>2, <1>4, <1>5, <1>8 DEF TypeOK, Programs
<1>10. ChainInv'
  <2>1. ASSUME NEW b \in DOMAIN blocks' PROVE Chain(blocks[b].instructions, b)'
    BY <1>0, <1>3, <2>1 DEF ChainInv, Chain
  <2>2. Chain(instructions, block_start)'
    <3>1. CASE instructions = <<>>
      <4>1. ip = block_start
        BY <1>0, <3>1 DEF LocalsInv
      <4>2. Len(instructions') = 1 /\ instructions'[1] = ip
        BY <1>1, <3>1 DEF Last
      <4> QED
        BY <1>0, <4>1, <4>2 DEF Chain
    <3>2. CASE instructions # <<>>
      <4>1. /\ Chain(instructions, block_start)
            /\ code[Last(instructions)].control \notin Transfers
            /\ ip = NextIp(Last(instructions))
        BY <1>0, <3>2 DEF ChainInv, LocalsInv
      <4>2. Len(instructions) >= 1
        BY <1>1, <3>2, <1>0
      <4>3. instructions'[1] = block_start
        BY <1>1, <4>1, <4>2 DEF Chain
      <4>4. ASSUME NEW i \in 1 .. Len(instructions') - 1
            PROVE  /\ code[instructions'[i]].control \notin Transfers
                   /\ instructions'[i + 1] = NextIp(instructions'[i])
        <5>1. CASE i = Len(instructions)
          BY <1>1, <4>1, <4>2, <5>1 DEF Last
        <5>2. CASE i # Len(instructions)
          <6>1. i \in 1 .. Len(instructions) - 1 /\ i + 1 \in 1 .. Len(instructions)
                /\ i \in 1 .. Len(instructions)
            BY <1>1, <5>2
          <6> QED
            BY <1>1, <4>1, <6>1 DEF Chain
        <5> QED
          BY <5>1, <5>2
      <4> QED
        BY <1>0, <1>3, <4>3, <4>4 DEF Chain
    <3> QED
      BY <3>1, <3>2
  <2> QED
    BY <2>1, <2>2 DEF ChainInv
<1>11. EdgesInv'
  BY <1>0, <1>3, <1>5, LimitAssumption DEF EdgesInv, Edges, LastOf
<1>12. HeldInv'
  <2>1. \A b : Held(b)' = Held(b)
    BY <1>0 DEF Held, Elements
  <2>2. Elements(instructions)' = Elements(instructions) \cup {ip}
    BY <1>1 DEF Elements
  <2>3. \A b \in DOMAIN blocks : ip \notin Held(b)
    BY <1>0 DEF HeldInv
  <2> QED
    BY <1>0, <1>2, <2>1, <2>2, <2>3 DEF HeldInv
<1>13. StartsOnce'
  BY <1>0, <1>8 DEF StartsOnce, Elements
<1>14. QueueInv'
  <2>1. Elements(pending)' = Elements(pending)
    BY <1>0 DEF Elements
  <2>2. \A q \in queued : \/ q \notin Addresses \/ q \in decoded'
                          \/ q \in Elements(pending)
    BY <1>0 DEF QueueInv
  <2> QED
    BY <1>0, <1>2, <1>8, <2>1, <2>2 DEF QueueInv
<1> QED
  BY <1>6, <1>7, <1>8, <1>9, <1>10, <1>11, <1>12, <1>13, <1>14

-----------------------------------------------------------------------------
(***************************************************************************)
(* The inductive invariant: the end of an iteration.                       *)
(***************************************************************************)

\* The successors are queued and the block is pushed.
LEMMA FinishPreserves ==
  ASSUME IInv, FinishBlock
  PROVE  IInv'
<1> USE DEF IInv
<1> DEFINE new == successors \ queued
<1>0. /\ UNCHANGED <<size, code, decoded, total>>
      /\ pc = "finish" /\ pc' = "pop"
      /\ block_start \in Addresses /\ block_start \in queued
      /\ queued' = queued \cup successors
      /\ pending' = pending \o Ascending(new)
      /\ block_start' = FunctionStart /\ ip' = FunctionStart
      /\ instructions' = <<>> /\ successors' = {}
      /\ instructions \in Seq(Addresses)
      /\ successors \subseteq Addresses
      /\ pending \in Seq(queued)
  BY DEF FinishBlock, NoLocals, LocalsInv, QueueInv, TypeOK, Unqueued
<1>1. /\ Ascending(new) \in Seq(new)
      /\ Elements(Ascending(new)) = new
      /\ \A i, j \in 1 .. Len(Ascending(new)) :
           Ascending(new)[i] = Ascending(new)[j] => i = j
  <2>1. PICK a \in Addresses, b \in Addresses : successors \subseteq {a, b}
    BY <1>0 DEF LocalsInv
  <2>2. a \in Nat /\ b \in Nat
    BY FunctionAssumption DEF TypeOK, Addresses, End
  <2>3. new \in SUBSET {a, b}
    BY <2>1
  <2> HIDE DEF new
  <2> QED
    BY <2>2, <2>3, AscendingLists
<1>2. /\ pending' \in Seq(queued')
      /\ Elements(pending') = Elements(pending) \cup new
      /\ \A i, j \in 1 .. Len(pending') : pending'[i] = pending'[j] => i = j
  <2>1. pending \in Seq(queued') /\ Ascending(new) \in Seq(queued')
    <3>1. queued \subseteq queued' /\ new \subseteq queued'
      BY <1>0
    <3> HIDE DEF new
    <3> QED
      BY <1>0, <1>1, <3>1, SeqMonotonic
  <2>2. Elements(pending) \subseteq queued
    BY <1>0 DEF Elements
  <2>3. Elements(pending) \cap Elements(Ascending(new)) = {}
    BY <1>1, <2>2
  <2>4. \A i, j \in 1 .. Len(pending) : pending[i] = pending[j] => i = j
    BY DEF StartsOnce
  <2> DEFINE more == Ascending(new)
  <2>5. more \in Seq(queued') /\ Elements(more) = new /\ \A i, j \in 1 .. Len(more) : more[i] = more[j] => i = j
    BY <1>1, <2>1
  <2>6. Elements(pending) \cap Elements(more) = {} /\ pending' = pending \o more
    BY <1>0, <2>3
  <2>7. pending \in Seq(queued')
    BY <2>1
  <2> HIDE DEF new, more, IInv
  <2>8. /\ pending \o more \in Seq(queued')
        /\ Elements(pending \o more) = Elements(pending) \cup Elements(more)
        /\ \A i, j \in 1 .. Len(pending \o more) : (pending \o more)[i] = (pending \o more)[j] => i = j
    BY <2>4, <2>5, <2>6, <2>7, ElementsOfConcat
  <2> QED
    BY <2>5, <2>6, <2>8
<1>3. Addresses' = Addresses /\ End' = End
  BY <1>0 DEF Addresses, End
<1>4. \A a : /\ NextIp(a)' = NextIp(a)
             /\ Flow(a)' = Flow(a)
  BY <1>0, <1>3 DEF NextIp, Flow
<1>5. FunctionStart \in FunctionStart .. End
  BY FunctionAssumption DEF TypeOK, End
<1>6. LocalsInv'
  BY <1>0 DEF LocalsInv
<1>7. LeastInv'
  <2>1. \A S : Closed(S)' = Closed(S)
    BY <1>3, <1>4 DEF Closed
  <2> QED
    BY <1>0, <1>3, <2>1 DEF LeastInv
<1>8. CASE instructions = <<>>
  <2>1. blocks' = blocks /\ successors = {block_start} /\ block_start \in decoded
    BY <1>0, <1>8 DEF FinishBlock, LocalsInv
  <2>2. queued' = queued /\ new = {}
    BY <1>0, <2>1
  <2>3. TypeOK'
    BY <1>0, <1>2, <1>3, <1>5, <2>1, <2>2 DEF TypeOK, Programs
  <2>4. ChainInv' /\ EdgesInv'
    BY <1>0, <1>4, <2>1 DEF ChainInv, EdgesInv, Chain, Edges, LastOf
  <2>5. HeldInv'
    <3>1. \A b : Held(b)' = Held(b)
      BY <2>1 DEF Held, Elements
    <3>2. Elements(instructions)' = Elements(instructions)
      BY <1>0, <1>8 DEF Elements
    <3> QED
      BY <1>0, <1>3, <2>1, <3>1, <3>2 DEF HeldInv
  <2>6. StartsOnce'
    BY <1>0, <1>2, <2>1, <2>2 DEF StartsOnce, Elements
  <2>7. QueueInv'
    <3>1. Elements(pending)' = Elements(pending)
      BY <1>2, <2>2 DEF Elements
    <3> QED
      BY <1>0, <1>3, <2>1, <2>2, <3>1 DEF QueueInv
  <2> QED
    BY <1>6, <1>7, <2>3, <2>4, <2>5, <2>6, <2>7
<1>9. CASE instructions # <<>>
  <2>1. /\ block_start \notin DOMAIN blocks
        /\ block_start \notin Elements(pending)
    BY <1>0 DEF StartsOnce
  <2>2. /\ DOMAIN blocks' = DOMAIN blocks \cup {block_start}
        /\ blocks'[block_start].instructions = instructions
        /\ blocks'[block_start].successors = successors
        /\ \A b \in DOMAIN blocks : blocks'[b] = blocks[b]
    BY <1>9, <2>1 DEF FinishBlock
  <2>3. TypeOK'
    BY <1>0, <1>2, <1>3, <1>5, <1>9, <2>2 DEF TypeOK, Programs
  <2>4. ChainInv'
    <3>1. Chain(instructions, block_start)
      BY <1>9 DEF ChainInv
    <3>2. ASSUME NEW b \in DOMAIN blocks' PROVE Chain(blocks[b].instructions, b)'
      <4>1. CASE b = block_start
        <5>1. blocks'[b].instructions = instructions
          BY <2>2, <4>1
        <5> QED
          BY <1>0, <1>4, <3>1, <4>1, <5>1 DEF Chain
      <4>2. CASE b # block_start
        <5>1. b \in DOMAIN blocks /\ blocks'[b] = blocks[b]
          BY <2>2, <4>2
        <5> QED
          BY <1>0, <1>4, <5>1 DEF ChainInv, Chain
      <4> QED
        BY <4>1, <4>2
    <3> QED
      BY <1>0, <3>2 DEF ChainInv
  <2>5. EdgesInv'
    <3>1. Edges(successors, Last(instructions))
      BY <1>0, <1>9 DEF LocalsInv
    <3>2. ASSUME NEW b \in DOMAIN blocks' PROVE Edges(blocks[b].successors, LastOf(b))'
      <4>1. CASE b = block_start
        BY <1>0, <1>4, <2>2, <3>1, <4>1 DEF Edges, LastOf, Last
      <4>2. CASE b # block_start
        BY <1>0, <1>4, <2>2, <4>2 DEF EdgesInv, Edges, LastOf
      <4> QED
        BY <4>1, <4>2
    <3> QED
      BY <3>2 DEF EdgesInv
  <2>6. HeldInv'
    <3>1. \A b \in DOMAIN blocks : Held(b)' = Held(b)
      BY <2>2 DEF Held, Elements
    <3>2. \A b : b = block_start => Held(b)' = Elements(instructions)
      BY <2>2 DEF Held, Elements
    <3>3. Elements(instructions)' = {}
      BY <1>0 DEF Elements
    <3> QED
      BY <1>0, <1>3, <2>1, <2>2, <3>1, <3>2, <3>3 DEF HeldInv
  <2>7. StartsOnce'
    <3>1. new \cap DOMAIN blocks' = {}
      BY <1>0, <2>2 DEF QueueInv
    <3>2. Elements(pending') \cap DOMAIN blocks' = {}
      BY <1>2, <2>1, <2>2, <3>1 DEF StartsOnce
    <3>3. Elements(pending)' = Elements(pending')
      BY DEF Elements
    <3> QED
      BY <1>0, <1>2, <3>2, <3>3 DEF StartsOnce
  <2>8. QueueInv'
    <3>1. Elements(pending)' = Elements(pending) \cup new
      BY <1>2 DEF Elements
    <3>2. \A q \in queued' : \/ q \notin Addresses \/ q \in decoded
                            \/ q \in Elements(pending) \cup new
      BY <1>0 DEF QueueInv
    <3>3. \A b \in DOMAIN blocks' : blocks'[b].successors \subseteq queued'
      BY <1>0, <2>2 DEF QueueInv
    <3> QED
      BY <1>0, <1>3, <2>2, <3>1, <3>2, <3>3 DEF QueueInv
  <2> QED
    BY <1>6, <1>7, <2>3, <2>4, <2>5, <2>6, <2>7, <2>8
<1> QED
  BY <1>8, <1>9

-----------------------------------------------------------------------------
(***************************************************************************)
(* The inductive invariant: every step.                                    *)
(***************************************************************************)
LEMMA StutterPreserves ==
  ASSUME IInv, UNCHANGED vars
  PROVE  IInv'
<1> USE DEF IInv
<1>0. UNCHANGED <<size, code, pending, queued, decoded, blocks, total, pc,
                  block_start, ip, instructions, successors>>
  BY DEF vars, locals
<1>1. TypeOK'
  BY <1>0 DEF TypeOK, Addresses, End, Programs
<1>2. LocalsInv'
  BY <1>0 DEF LocalsInv, Edges, Flow, NextIp, Addresses, End, Last
<1>3. ChainInv' /\ EdgesInv'
  BY <1>0 DEF ChainInv, EdgesInv, Chain, Edges, Flow, NextIp, Addresses, End, LastOf
<1>4. HeldInv'
  <2>1. \A b : Held(b)' = Held(b)
    BY <1>0 DEF Held, Elements
  <2>2. Elements(instructions)' = Elements(instructions)
    BY <1>0 DEF Elements
  <2>3. Addresses' = Addresses
    BY <1>0 DEF Addresses, End
  <2> QED
    BY <1>0, <2>1, <2>2, <2>3 DEF HeldInv
<1>5. StartsOnce'
  BY <1>0 DEF StartsOnce, Elements
<1>6. QueueInv'
  BY <1>0 DEF QueueInv, LimitReached, Elements, Addresses, End
<1>7. LeastInv'
  BY <1>0 DEF LeastInv, Closed, Flow, NextIp, Addresses, End
<1> QED
  BY <1>1, <1>2, <1>3, <1>4, <1>5, <1>6, <1>7

\* IInv holds of every function at every step of its recovery.
THEOREM Inductive == Spec => []IInv
<1>1. IInv /\ [Next]_vars => IInv'
  <2> SUFFICES ASSUME IInv, [Next]_vars PROVE IInv'
    OBVIOUS
  <2>1. CASE WorkListEmpty \/ StopAtLimit
    BY <2>1, LeavePreserves
  <2>2. CASE SkipOutside
    BY <2>2, SkipPreserves
  <2>3. CASE BeginBlock
    BY <2>3, BeginPreserves
  <2>4. CASE StopDecoding
    BY <2>4, StopDecodingPreserves
  <2>5. CASE JoinDecoded
    BY <2>5, JoinPreserves
  <2>6. CASE DecodeInstruction
    BY <2>6, DecodePreserves
  <2>7. CASE FinishBlock
    BY <2>7, FinishPreserves
  <2>8. CASE UNCHANGED vars
    BY <2>8, StutterPreserves
  <2> QED
    BY <2>1, <2>2, <2>3, <2>4, <2>5, <2>6, <2>7, <2>8 DEF Next
<1> QED
  BY InitIInv, <1>1, PTL DEF Spec

-----------------------------------------------------------------------------
(***************************************************************************)
(* What follows from it.                                                   *)
(***************************************************************************)

\* decode_x86_cfg keeps every address inside the function and every counter
\* inside its limit.
THEOREM TypeCorrect == Spec => []TypeOK
<1>1. IInv => TypeOK
  BY DEF IInv
<1> QED
  BY Inductive, <1>1, PTL

\* Between iterations the blocks partition the decoded instructions.
THEOREM Partition == Spec => []BlocksPartitionDecoded
<1>1. IInv => BlocksPartitionDecoded
  <2> SUFFICES ASSUME IInv PROVE BlocksPartitionDecoded
    OBVIOUS
  <2>1. \A b, c \in DOMAIN blocks : b # c => Held(b) \cap Held(c) = {}
    BY DEF IInv, HeldInv
  <2>2. ASSUME pc \in {"pop", "done"}
        PROVE  decoded = UNION {Held(b) : b \in DOMAIN blocks}
    <3>1. Elements(instructions) = {}
      BY <2>2 DEF IInv, LocalsInv, Elements
    <3>2. decoded \subseteq UNION {Held(b) : b \in DOMAIN blocks}
      BY <3>1 DEF IInv, HeldInv, TypeOK
    <3>3. ASSUME NEW b \in DOMAIN blocks PROVE Held(b) \subseteq decoded
      <4>1. Held(b) \subseteq Addresses
        BY DEF IInv, TypeOK, Held, Elements
      <4> QED
        BY <4>1 DEF IInv, HeldInv
    <3> QED
      BY <3>2, <3>3
  <2> QED
    BY <2>1, <2>2 DEF BlocksPartitionDecoded
<1> QED
  BY Inductive, <1>1, PTL

\* A block is a straight line of instructions that begins at its address.
THEOREM StraightLines == Spec => []StraightLine
<1>1. IInv => StraightLine
  BY DEF IInv, ChainInv, Chain, StraightLine
<1> QED
  BY Inductive, <1>1, PTL

\* No start waits twice in the work list or after its block is pushed.
THEOREM StartsAreTakenOnce == Spec => []StartsOnce
<1>1. IInv => StartsOnce
  BY DEF IInv
<1> QED
  BY Inductive, <1>1, PTL

\* The edges of a function that does not begin at address 0 are exact.
THEOREM ExactEdges == FunctionStart # 0 => (Spec => []EdgesExact)
<1> SUFFICES ASSUME FunctionStart # 0 PROVE Spec => []EdgesExact
  OBVIOUS
<1>1. IInv => EdgesExact
  <2> SUFFICES ASSUME IInv, NEW b \in DOMAIN blocks
               PROVE  blocks[b].successors = Flow(LastOf(b)) \/ Truncated(b)
    BY DEF EdgesExact
  <2>1. Edges(blocks[b].successors, LastOf(b))
    BY DEF IInv, EdgesInv
  <2>2. Flow(LastOf(b)) \subseteq Addresses
    BY DEF Flow
  <2>3. 0 \notin Addresses
    BY FunctionAssumption DEF IInv, TypeOK, Addresses, End
  <2> QED
    BY <2>1, <2>2, <2>3 DEF Edges, Truncated
<1> QED
  BY Inductive, <1>1, PTL

\* When the list has run out below the limits nothing that control leads to is missing.
LEMMA NothingLeft ==
  ASSUME IInv, pending = <<>>, pc \in {"pop", "done"}, ~LimitReached
  PROVE  Closed(decoded)
<1>1. instructions = <<>>
  BY DEF IInv, LocalsInv
<1>2. \A q \in queued : q \notin Addresses \/ q \in decoded
  <2>1. Elements(pending) = {}
    BY DEF Elements
  <2> QED
    BY <2>1 DEF IInv, QueueInv
<1>3. FunctionStart \in Addresses => FunctionStart \in decoded
  BY <1>2 DEF IInv, QueueInv
<1>4. ASSUME NEW a \in decoded, NEW t \in Flow(a) PROVE t \in decoded
  <2>1. a \in Addresses /\ t \in Addresses
    BY FlowFacts DEF IInv, TypeOK
  <2>2. PICK b \in DOMAIN blocks : a \in Held(b)
    <3>1. Elements(instructions) = {}
      BY <1>1 DEF Elements
    <3> QED
      BY <2>1, <3>1 DEF IInv, HeldInv
  <2> DEFINE s == blocks[b].instructions
  <2>3. s \in Seq(Addresses) /\ Len(s) \in Nat
    BY DEF IInv, TypeOK
  <2>4. PICK i \in 1 .. Len(s) : a = s[i]
    BY <2>2 DEF Held, Elements
  <2>5. CASE i = Len(s)
    <3>1. Edges(blocks[b].successors, a)
      BY <2>4, <2>5 DEF IInv, EdgesInv, LastOf
    <3>2. total < MaxInstructions
      BY LimitAssumption DEF LimitReached, IInv, TypeOK
    <3>3. t \in blocks[b].successors \/ t = 0
      BY <3>1, <3>2, LimitAssumption DEF Edges, IInv, TypeOK
    <3>4. CASE t \in blocks[b].successors
      <4>1. t \in queued
        BY <3>4 DEF IInv, QueueInv
      <4> QED
        BY <4>1, <1>2, <2>1
    <3>5. CASE t = 0
      <4>1. t = FunctionStart
        BY <3>5, <2>1, FunctionAssumption DEF Addresses, End, IInv, TypeOK
      <4> QED
        BY <4>1, <1>3, <2>1
    <3> QED
      BY <3>3, <3>4, <3>5
  <2>6. CASE i # Len(s)
    <3>1. i \in 1 .. Len(s) - 1 /\ i + 1 \in 1 .. Len(s)
      BY <2>3, <2>6
    <3>2. Chain(s, b)
      BY DEF IInv, ChainInv
    <3>3. code[a].control \notin Transfers /\ s[i + 1] = NextIp(a)
      BY <2>4, <3>1, <3>2 DEF Chain
    <3>4. t = s[i + 1]
      BY <2>1, <3>3, PushedIsFlow DEF IInv
    <3>5. t \in Held(b)
      BY <3>1, <3>4 DEF Held, Elements
    <3> QED
      BY <3>5, <2>1 DEF IInv, HeldInv
  <2> QED
    BY <2>5, <2>6
<1> QED
  BY <1>3, <1>4 DEF Closed

\* Below the limits the recovery decodes exactly the instructions that control
\* can reach from the entry, whatever the bytes of the function are.
THEOREM Reachability == Spec => []ExactlyReachable
<1>1. IInv => ExactlyReachable
  <2> SUFFICES ASSUME IInv, pc = "done", ~LimitReached
               PROVE  /\ Closed(decoded)
                      /\ \A S \in SUBSET Addresses : Closed(S) => decoded \subseteq S
    BY DEF ExactlyReachable
  <2>1. pending = <<>>
    BY DEF IInv, QueueInv
  <2>2. Closed(decoded)
    BY <2>1, NothingLeft
  <2> QED
    BY <2>2 DEF IInv, LeastInv
<1> QED
  BY Inductive, <1>1, PTL

-----------------------------------------------------------------------------
(***************************************************************************)
(* The search that decode_x86_cfg implements.  What waits, is about to be   *)
(* queued or is decoded next is what decoded instructions lead to.         *)
(***************************************************************************)
Seen == ({FunctionStart} \cap Addresses) \cup UNION {Flow(a) : a \in decoded}

SeenInv ==
  /\ queued \cap Addresses \subseteq Seen
  /\ successors \subseteq Seen
  /\ pc = "decode" => {ip} \cap Addresses \subseteq Seen

LEMMA SeenKept == IInv /\ SeenInv /\ [Next]_vars => SeenInv'
<1> SUFFICES ASSUME IInv, SeenInv, [Next]_vars PROVE SeenInv'
  OBVIOUS
<1> USE DEF SeenInv
<1>1. CASE UNCHANGED <<size, code, decoded>>
  <2>1. Addresses' = Addresses /\ Seen' = Seen
    BY <1>1 DEF Seen, Addresses, End, Flow, NextIp
  <2>2. CASE WorkListEmpty \/ StopAtLimit \/ SkipOutside \/ StopDecoding \/ UNCHANGED vars
    BY <2>1, <2>2 DEF WorkListEmpty, StopAtLimit, SkipOutside, StopDecoding, vars, locals
  <2>3. CASE BeginBlock
    <3>1. Head(pending) \in queued
      BY <2>3, ElementsOfTail DEF BeginBlock, IInv, TypeOK
    <3> QED
      BY <2>1, <2>3, <3>1 DEF BeginBlock
  <2>4. CASE JoinDecoded
    <3>1. {ip} \cap Addresses = {ip}
      BY <2>4 DEF JoinDecoded, IInv, LocalsInv
    <3> QED
      BY <2>1, <2>4, <3>1 DEF JoinDecoded
  <2>5. CASE FinishBlock
    BY <2>1, <2>5 DEF FinishBlock, NoLocals
  <2>6. ~DecodeInstruction
    BY <1>1 DEF DecodeInstruction, IsDecoded
  <2> QED
    BY <2>2, <2>3, <2>4, <2>5, <2>6 DEF Next
<1>2. CASE DecodeInstruction
  <2>1. UNCHANGED <<size, code, queued>> /\ decoded' = decoded \cup {ip} /\ ip \in Addresses
    BY <1>2 DEF DecodeInstruction, IInv, LocalsInv
  <2>2. Addresses' = Addresses /\ Seen' = Seen \cup Flow(ip)
    BY <2>1 DEF Seen, Addresses, End, Flow, NextIp
  <2>3. Pushed(ip) \subseteq Flow(ip)
    BY <2>1, FlowFacts DEF IInv
  <2>4. pc' = "decode" => {ip'} \cap Addresses \subseteq Flow(ip)
    <3>1. pc' = "decode" => code[ip].control \notin Transfers /\ ip' = NextIp(ip)
      BY <1>2 DEF DecodeInstruction, EndsBlock, Transfers
    <3> QED
      BY <2>1, <3>1, PushedIsFlow DEF IInv
  <2> QED
    BY <1>2, <2>1, <2>2, <2>3, <2>4 DEF DecodeInstruction
<1>3. DecodeInstruction \/ UNCHANGED <<size, code, decoded>>
  BY DEF Next, WorkListEmpty, StopAtLimit, SkipOutside, BeginBlock, StopDecoding,
         JoinDecoded, FinishBlock, vars
<1> QED
  BY <1>1, <1>2, <1>3

\* Each step of the loops is a step of the search or none of it: one instruction is
\* visited, the search is finished, or a limit cuts it.
LEMMA StepSearches ==
  ASSUME IInv, SeenInv, [Next]_vars
  PROVE  FlowSearch!Next \/ UNCHANGED FlowSearch!vars
<1> DEFINE graph == [a \in Addresses |-> Flow(a)]
<1>1. FlowSearch!Found = Seen
  <2>1. \A a \in decoded : graph[a] = Flow(a)
    BY DEF IInv, TypeOK
  <2> QED
    BY <2>1 DEF FlowSearch!Found, Seen
<1>2. ASSUME UNCHANGED <<size, code>>
      PROVE  UNCHANGED <<graph, {FunctionStart} \cap Addresses>>
  BY <1>2 DEF Addresses, End, Flow, NextIp
<1>3. CASE WorkListEmpty \/ StopAtLimit
  <2>1. /\ UNCHANGED <<size, code, decoded, blocks, total>>
        /\ pc = "pop" /\ pc' = "done"
    BY <1>3 DEF WorkListEmpty, StopAtLimit
  <2>2. Progress = "searching" /\ Progress' = IF LimitReached THEN "cut" ELSE "finished"
    BY <2>1 DEF Progress, LimitReached
  <2>3. CASE LimitReached
    BY <1>2, <2>1, <2>2, <2>3 DEF FlowSearch!Next, FlowSearch!Cut
  <2>4. CASE ~LimitReached
    <3>1. Closed(decoded)
      BY <1>3, <2>1, <2>4, NothingLeft DEF WorkListEmpty, StopAtLimit
    <3>2. FlowSearch!Found \subseteq decoded
      BY <1>1, <3>1 DEF Seen, Closed
    <3> QED
      BY <1>2, <2>1, <2>2, <2>4, <3>2 DEF FlowSearch!Next, FlowSearch!Finish
  <2> QED
    BY <2>3, <2>4
<1>4. CASE DecodeInstruction
  <2>1. /\ UNCHANGED <<size, code>> /\ pc = "decode" /\ pc' # "done"
        /\ decoded' = decoded \cup {ip} /\ ip \notin decoded
    BY <1>4 DEF DecodeInstruction, IsDecoded
  <2>2. ip \in FlowSearch!Found
    BY <1>1, <2>1 DEF SeenInv, IInv, LocalsInv
  <2>3. Progress = "searching" /\ Progress' = "searching"
    BY <2>1 DEF Progress
  <2> QED
    BY <1>2, <2>1, <2>2, <2>3 DEF FlowSearch!Next, FlowSearch!Visit
<1>5. CASE SkipOutside \/ BeginBlock \/ StopDecoding \/ JoinDecoded \/ FinishBlock
  <2>1. UNCHANGED <<size, code, decoded>> /\ pc # "done" /\ pc' # "done"
    BY <1>5 DEF SkipOutside, BeginBlock, StopDecoding, JoinDecoded, FinishBlock
  <2> QED
    BY <1>2, <2>1 DEF FlowSearch!vars, Progress
<1>6. CASE UNCHANGED vars
  <2>1. UNCHANGED <<size, code, decoded, blocks, total, pc>>
    BY <1>6 DEF vars
  <2>2. Progress' = Progress
    BY <2>1 DEF Progress, LimitReached
  <2> QED
    BY <1>2, <2>1, <2>2 DEF FlowSearch!vars
<1> QED
  BY <1>3, <1>4, <1>5, <1>6 DEF Next

\* decode_x86_cfg implements a search of the flow of control (SearchesFlow), whatever
\* the order of its work list, the blocks it cuts and the limits that stop it.
THEOREM Refinement == Spec => SearchesFlow
<1>1. Init => SeenInv
  BY DEF Init, SeenInv, Seen
<1>2. Init => FlowSearch!Init
  BY DEF Init, FlowSearch!Init, Progress
<1>3. IInv /\ SeenInv /\ [Next]_vars => [FlowSearch!Next]_(FlowSearch!vars)
  BY StepSearches
<1> QED
  BY Inductive, SeenKept, <1>1, <1>2, <1>3, PTL DEF Spec, SearchesFlow, FlowSearch!Spec

FlowGraph == [a \in Addresses |-> Flow(a)]

\* S holds the function's address and what the graph leads to from its members.
LeadsNowhereElse(S) == /\ {FunctionStart} \cap Addresses \subseteq S
                       /\ \A a \in S : FlowGraph[a] \subseteq S

FindsAll    == Progress = "finished" => LeadsNowhereElse(decoded)
FindsNoMore == \A S : LeadsNowhereElse(S) => decoded \subseteq S

\* Whatever searches the flow of control, in any order, has when it is finished visited
\* what control leads to, and at no time anything else.
THEOREM FindsReachable == SearchesFlow => [](FindsAll /\ FindsNoMore)
<1>1. FlowSearch!Init => FindsAll /\ FindsNoMore
  BY DEF FlowSearch!Init, FindsAll, FindsNoMore
<1>2. FindsAll /\ FindsNoMore /\ [FlowSearch!Next]_(FlowSearch!vars) => FindsAll' /\ FindsNoMore'
  <2> SUFFICES ASSUME FindsAll, FindsNoMore, [FlowSearch!Next]_(FlowSearch!vars)
               PROVE  FindsAll' /\ FindsNoMore'
    OBVIOUS
  <2> DEFINE roots == {FunctionStart} \cap Addresses
  <2>0. /\ FlowSearch!Found = roots \cup UNION {FlowGraph[a] : a \in decoded}
        /\ FlowGraph' = FlowGraph /\ roots' = roots
    BY DEF FlowSearch!Found, FlowSearch!Next, FlowSearch!Visit, FlowSearch!Finish, FlowSearch!Cut,
           FlowSearch!vars, FlowGraph
  <2>1. CASE FlowSearch!Visit
    <3>1. Progress' = Progress /\ Progress = "searching"
      BY <2>1 DEF FlowSearch!Visit
    <3>2. PICK a \in FlowSearch!Found \ decoded : decoded' = decoded \cup {a}
      BY <2>1 DEF FlowSearch!Visit
    <3>3. ASSUME NEW S, LeadsNowhereElse(S) PROVE a \in S
      BY <2>0, <3>2, <3>3 DEF LeadsNowhereElse, FindsNoMore
    <3> QED
      BY <2>0, <3>1, <3>2, <3>3 DEF FindsAll, FindsNoMore, LeadsNowhereElse
  <2>2. CASE FlowSearch!Finish
    <3>1. LeadsNowhereElse(decoded)
      BY <2>0, <2>2 DEF FlowSearch!Finish, LeadsNowhereElse
    <3>2. decoded' = decoded
      BY <2>2 DEF FlowSearch!Finish
    <3> QED
      BY <2>0, <3>1, <3>2 DEF FindsAll, FindsNoMore, LeadsNowhereElse
  <2>3. CASE FlowSearch!Cut
    BY <2>0, <2>3 DEF FlowSearch!Cut, FindsAll, FindsNoMore, LeadsNowhereElse
  <2>4. CASE UNCHANGED FlowSearch!vars
    BY <2>0, <2>4 DEF FlowSearch!vars, FindsAll, FindsNoMore, LeadsNowhereElse
  <2> QED
    BY <2>1, <2>2, <2>3, <2>4 DEF FlowSearch!Next
<1> QED
  BY <1>1, <1>2, PTL DEF SearchesFlow, FlowSearch!Spec

-----------------------------------------------------------------------------
(***************************************************************************)
(* The limits.  Their invariant counts what IInv only lists.               *)
(***************************************************************************)
LimitsInv ==
  /\ IsFiniteSet(decoded)
  /\ total = Cardinality(decoded)
  /\ IsFiniteSet(DOMAIN blocks)
  /\ Cardinality(DOMAIN blocks) <= MaxBlocks
  /\ pc \in {"decode", "finish"} => Cardinality(DOMAIN blocks) < MaxBlocks

\* Whatever the bytes are, at most MAX_BLOCKS_PER_FUNCTION blocks and
\* MAX_INSTRUCTIONS_PER_FUNCTION distinct instructions are recovered.
THEOREM Limits == Spec => []LimitsHold
<1>1. Init => LimitsInv
  <2> SUFFICES ASSUME Init PROVE LimitsInv
    OBVIOUS
  <2>1. decoded = {} /\ DOMAIN blocks = {} /\ total = 0 /\ pc = "pop"
    BY DEF Init
  <2> QED
    BY <2>1, FS_EmptySet, LimitAssumption DEF LimitsInv
<1>2. IInv /\ LimitsInv /\ [Next]_vars => LimitsInv'
  <2> SUFFICES ASSUME IInv, LimitsInv, [Next]_vars PROVE LimitsInv'
    OBVIOUS
  <2>1. Cardinality(DOMAIN blocks) \in Nat
    BY FS_CardinalityType DEF LimitsInv
  <2>2. CASE WorkListEmpty \/ StopAtLimit \/ SkipOutside \/ UNCHANGED vars
    BY <2>2 DEF WorkListEmpty, StopAtLimit, SkipOutside, vars, LimitsInv
  <2>3. CASE BeginBlock
    <3>1. ~(Cardinality(DOMAIN blocks) >= MaxBlocks)
      BY <2>3 DEF BeginBlock, LimitReached
    <3> QED
      BY <2>1, <2>3, <3>1, LimitAssumption DEF BeginBlock, LimitsInv
  <2>4. CASE StopDecoding \/ JoinDecoded
    BY <2>4 DEF StopDecoding, JoinDecoded, LimitsInv
  <2>5. CASE DecodeInstruction
    <3>1. /\ IsFiniteSet(decoded \cup {ip})
          /\ Cardinality(decoded \cup {ip}) = Cardinality(decoded) + 1
      BY <2>5, FS_AddElement DEF DecodeInstruction, LimitsInv, IsDecoded
    <3> QED
      BY <2>5, <3>1 DEF DecodeInstruction, LimitsInv
  <2>6. CASE FinishBlock
    <3>1. pc = "finish" /\ pc' = "pop" /\ UNCHANGED <<decoded, total>>
      BY <2>6 DEF FinishBlock
    <3>2. DOMAIN blocks' = DOMAIN blocks \/ DOMAIN blocks' = DOMAIN blocks \cup {block_start}
      BY <2>6 DEF FinishBlock
    <3>3. Cardinality(DOMAIN blocks) < MaxBlocks
      BY <3>1 DEF LimitsInv
    <3>4. /\ IsFiniteSet(DOMAIN blocks')
          /\ Cardinality(DOMAIN blocks') <= Cardinality(DOMAIN blocks) + 1
      BY <2>1, <3>2, FS_AddElement DEF LimitsInv
    <3>5. Cardinality(DOMAIN blocks') \in Nat
      BY <3>4, FS_CardinalityType
    <3> QED
      BY <2>1, <3>1, <3>3, <3>4, <3>5, LimitAssumption DEF LimitsInv
  <2> QED
    BY <2>2, <2>3, <2>4, <2>5, <2>6 DEF Next
<1>3. IInv /\ LimitsInv => LimitsHold
  BY DEF IInv, TypeOK, LimitsInv, LimitsHold
<1> QED
  BY Inductive, <1>1, <1>2, <1>3, PTL DEF Spec
-----------------------------------------------------------------------------
(***************************************************************************)
(* The first block.                                                        *)
(***************************************************************************)
FirstInv ==
  FunctionStart \in Addresses =>
    \/ FunctionStart \in DOMAIN blocks
    \/ /\ pc = "pop" /\ pending = <<FunctionStart>>
       /\ decoded = {} /\ DOMAIN blocks = {} /\ total = 0
    \/ pc = "decode" /\ block_start = FunctionStart /\ (instructions = <<>> => decoded = {})
    \/ pc = "finish" /\ block_start = FunctionStart /\ instructions # <<>>

\* A function that has bytes has a block at its address when it is recovered, whatever
\* the limits: what compute_states begins with is where the function is entered.
THEOREM FirstBlock ==
  Spec => [](pc = "done" /\ FunctionStart \in Addresses => FunctionStart \in DOMAIN blocks)
<1>1. Init => FirstInv
  BY DEF Init, FirstInv
<1>2. IInv /\ FirstInv /\ [Next]_vars => FirstInv'
  <2> SUFFICES ASSUME IInv, FirstInv, [Next]_vars, FunctionStart \in Addresses PROVE FirstInv'
    BY DEF FirstInv, Next, vars, Addresses, End, WorkListEmpty, StopAtLimit, SkipOutside,
           BeginBlock, StopDecoding, JoinDecoded, DecodeInstruction, FinishBlock
  <2>1. CASE UNCHANGED vars
    BY <2>1 DEF vars, locals, FirstInv
  <2>2. CASE FunctionStart \in DOMAIN blocks
    <3>1. DOMAIN blocks \subseteq DOMAIN blocks'
      BY DEF Next, vars, WorkListEmpty, StopAtLimit, SkipOutside, BeginBlock, StopDecoding,
             JoinDecoded, DecodeInstruction, FinishBlock
    <3> QED
      BY <2>2, <3>1 DEF FirstInv
  <2>3. CASE /\ pc = "pop" /\ pending = <<FunctionStart>>
             /\ decoded = {} /\ DOMAIN blocks = {} /\ total = 0
    <3>1. ~LimitReached
      BY <2>3, LimitAssumption, FS_EmptySet DEF LimitReached
    <3>2. Next => BeginBlock
      BY <2>3, <3>1 DEF Next, WorkListEmpty, StopAtLimit, SkipOutside, StopDecoding,
                        JoinDecoded, DecodeInstruction, FinishBlock
    <3>3. BeginBlock => FirstInv'
      BY <2>3 DEF BeginBlock, FirstInv
    <3> QED
      BY <2>1, <3>2, <3>3
  <2>4. CASE pc = "decode" /\ block_start = FunctionStart /\ (instructions = <<>> => decoded = {})
    <3>1. CASE DecodeInstruction
      <4>1. instructions' # <<>>
        BY <3>1, ElementsOfAppend DEF DecodeInstruction, IInv, TypeOK, LocalsInv
      <4> QED
        BY <2>4, <3>1, <4>1 DEF DecodeInstruction, FirstInv
    <3>2. CASE StopDecoding \/ JoinDecoded
      <4>1. instructions # <<>>
        <5> SUFFICES ASSUME instructions = <<>> PROVE FALSE
          OBVIOUS
        <5>1. ip \in Addresses /\ total < MaxInstructions /\ decoded = {} /\ total \in Nat
          BY <2>4 DEF IInv, LocalsInv, TypeOK
        <5>2. ip < End /\ ip \in Int /\ End \in Int
          BY <5>1, FunctionAssumption DEF IInv, TypeOK, Addresses, End
        <5> QED
          BY <3>2, <5>1, <5>2, LimitAssumption DEF StopDecoding, JoinDecoded, IsDecoded
      <4> QED
        BY <2>4, <3>2, <4>1 DEF StopDecoding, JoinDecoded, FirstInv, locals
    <3> QED
      BY <2>1, <2>4, <3>1, <3>2 DEF Next, WorkListEmpty, StopAtLimit, SkipOutside, BeginBlock,
                                    FinishBlock
  <2>5. CASE pc = "finish" /\ block_start = FunctionStart /\ instructions # <<>>
    <3>1. Next => FinishBlock
      BY <2>5 DEF Next, WorkListEmpty, StopAtLimit, SkipOutside, BeginBlock, StopDecoding,
                  JoinDecoded, DecodeInstruction
    <3>2. FinishBlock => FunctionStart \in DOMAIN blocks'
      BY <2>5 DEF FinishBlock
    <3> QED
      BY <2>1, <3>1, <3>2 DEF FirstInv
  <2> QED
    BY <2>2, <2>3, <2>4, <2>5 DEF FirstInv
<1>3. FirstInv => (pc = "done" /\ FunctionStart \in Addresses => FunctionStart \in DOMAIN blocks)
  BY DEF FirstInv
<1> QED
  BY Inductive, <1>1, <1>2, <1>3, PTL DEF Spec

-----------------------------------------------------------------------------
(* The text of the function, from the invariants of its graph. *)
\* Blocks and instructions lie within the function.
LEMMA BlockFacts ==
  ASSUME IInv, NEW b \in DOMAIN blocks
  PROVE  /\ blocks[b].instructions \in Seq(Addresses)
         /\ Len(blocks[b].instructions) \in Nat \ {0}
         /\ LastOf(b) = blocks[b].instructions[Len(blocks[b].instructions)]
         /\ LastOf(b) \in Addresses
         /\ Chain(blocks[b].instructions, b)
         /\ \A i \in 1 .. Len(blocks[b].instructions) :
              /\ blocks[b].instructions[i] \in Addresses
              /\ blocks[b].instructions[i] \in Held(b)
<1> DEFINE s == blocks[b].instructions
<1>1. s \in Seq(Addresses) /\ s # <<>>
  BY DEF IInv, TypeOK
<1>2. Len(s) \in Nat \ {0}
  BY <1>1
<1>3. \A i \in 1 .. Len(s) : s[i] \in Addresses /\ s[i] \in Held(b)
  BY <1>1 DEF Held, Elements
<1>4. Chain(s, b)
  BY DEF IInv, ChainInv
<1> QED
  BY <1>1, <1>2, <1>3, <1>4 DEF LastOf

LEMMA NumberFacts ==
  ASSUME TypeOK
  PROVE  /\ FunctionStart \in Nat /\ size \in Nat /\ End \in Nat
         /\ Addresses \subseteq 0 .. End
         /\ \A a \in Addresses : a \in Nat /\ FunctionStart <= a /\ a < End
BY FunctionAssumption DEF TypeOK, Addresses, End

\* The instructions of a block come after its address.
LEMMA Ascends ==
  ASSUME IInv, NEW b \in DOMAIN blocks
  PROVE  \A i \in 1 .. Len(blocks[b].instructions) : b <= blocks[b].instructions[i]
<1> DEFINE s == blocks[b].instructions
           J == {j \in 1 .. Len(s) : s[j] < b}
<1> SUFFICES ASSUME J # {} PROVE FALSE
  <2>1. \A i \in 1 .. Len(s) : s[i] \in Nat
    BY BlockFacts, NumberFacts DEF IInv
  <2>2. b \in Nat
    BY NumberFacts DEF IInv, TypeOK
  <2> QED
    BY <2>1, <2>2
<1>1. Len(s) \in Nat \ {0} /\ Chain(s, b) /\ TypeOK
  BY BlockFacts DEF IInv
<1>2. b \in Nat /\ \A i \in 1 .. Len(s) : s[i] \in Nat /\ s[i] \in Addresses
  BY BlockFacts, NumberFacts DEF IInv, TypeOK
<1>3. J \in SUBSET Nat
  OBVIOUS
<1> HIDE DEF J
<1>4. PICK j \in J : \A k \in J : j <= k
  BY <1>3, Least
<1>5. j \in 1 .. Len(s) /\ s[j] < b
  BY <1>4 DEF J
<1>6. j # 1
  BY <1>1, <1>2, <1>5 DEF Chain
<1>7. j - 1 \in 1 .. Len(s) - 1 /\ j - 1 \in 1 .. Len(s) /\ (j - 1) + 1 = j
  BY <1>1, <1>5, <1>6
<1>8. j - 1 \notin J
  BY <1>4, <1>5
<1>9. ~(s[j - 1] < b)
  BY <1>7, <1>8 DEF J
<1>10. s[j] = NextIp(s[j - 1])
  BY <1>1, <1>7 DEF Chain
<1>11. NextIp(s[j - 1]) > s[j - 1] /\ s[j - 1] \in Nat
  BY <1>1, <1>2, <1>7, FlowFacts
<1> QED
  BY <1>2, <1>5, <1>9, <1>10, <1>11

\* A block covers its bytes: where blocks do not overlap none begins before the end
\* of another that began earlier.
LEMMA Contiguous ==
  ASSUME IInv, Apart, pc = "done", NEW b \in DOMAIN blocks, NEW c \in DOMAIN blocks, c > b
  PROVE  c >= NextIp(LastOf(b))
<1> DEFINE s == blocks[b].instructions
           J == {j \in 1 .. Len(s) : s[j] <= c}
<1>1. Len(s) \in Nat \ {0} /\ Chain(s, b) /\ TypeOK
  BY BlockFacts DEF IInv
<1>2. /\ b \in Nat /\ c \in Nat
      /\ \A i \in 1 .. Len(s) : s[i] \in Nat /\ s[i] \in Addresses /\ s[i] \in Held(b)
  BY BlockFacts, NumberFacts DEF IInv, TypeOK
<1>3. J \in SUBSET (0 .. Len(s)) /\ 1 \in J
  BY <1>1, <1>2 DEF Chain
<1> HIDE DEF J
<1>4. PICK j \in J : \A k \in J : k <= j
  BY <1>1, <1>3, Largest
<1>5. j \in 1 .. Len(s) /\ s[j] <= c
  BY <1>4 DEF J
<1>6. NextIp(s[j]) \in Nat /\ NextIp(s[j]) > s[j]
  BY <1>1, <1>2, <1>5, FlowFacts, NumberFacts
<1>7. s[j] # c
  <2>1. c \in Held(c)
    <3>1. Len(blocks[c].instructions) \in Nat \ {0} /\ Chain(blocks[c].instructions, c)
      BY BlockFacts
    <3>2. 1 \in 1 .. Len(blocks[c].instructions) /\ blocks[c].instructions[1] = c
      BY <3>1 DEF Chain
    <3> QED
      BY <3>2, BlockFacts
  <2>2. b # c
    BY <1>2
  <2>3. Held(b) \cap Held(c) = {}
    BY <2>2 DEF IInv, HeldInv
  <2> QED
    BY <1>2, <1>5, <2>1, <2>3
<1>8. s[j] \in decoded
  BY <1>2, <1>5 DEF IInv, HeldInv
<1>9. c >= NextIp(s[j])
  BY <1>2, <1>5, <1>6, <1>7, <1>8 DEF Apart
<1>10. j = Len(s)
  <2> SUFFICES ASSUME j # Len(s) PROVE FALSE
    OBVIOUS
  <2>1. j \in 1 .. Len(s) - 1 /\ j + 1 \in 1 .. Len(s)
    BY <1>1, <1>5
  <2>2. s[j + 1] = NextIp(s[j])
    BY <1>1, <2>1 DEF Chain
  <2>3. j + 1 \in J
    BY <1>9, <2>1, <2>2 DEF J
  <2> QED
    BY <1>4, <1>5, <2>3
<1> QED
  BY <1>9, <1>10, BlockFacts

\* So the block below in the text is the one where control goes on, if any does.
LEMMA NextBlockIsNext ==
  ASSUME IInv, Apart, pc = "done", NEW b \in DOMAIN blocks,
         {NextIp(LastOf(b))} \cap Addresses \subseteq DOMAIN blocks
  PROVE  NextBlock(b) = {NextIp(LastOf(b))} \cap Addresses
<1> DEFINE n == NextIp(LastOf(b))
<1>1. LastOf(b) \in Addresses /\ b <= LastOf(b) /\ TypeOK
  <2>1. Len(blocks[b].instructions) \in 1 .. Len(blocks[b].instructions)
    BY BlockFacts
  <2> QED
    BY <2>1, BlockFacts, Ascends DEF IInv
<1>2. /\ b \in Nat /\ LastOf(b) \in Nat /\ End \in Nat
      /\ n \in Nat /\ n <= End /\ n > LastOf(b)
      /\ n < End => n \in Addresses
  BY <1>1, FlowFacts, NumberFacts DEF TypeOK
<1>3. \A c \in DOMAIN blocks : c \in Nat /\ c < End /\ c \in Addresses
  BY <1>1, NumberFacts DEF TypeOK
<1>4. \A c \in DOMAIN blocks : c > b => c >= n
  BY Contiguous
<1>5. CASE n \in Addresses
  <2>1. n \in DOMAIN blocks /\ n > b
    BY <1>1, <1>2, <1>5
  <2> HIDE DEF n
  <2>2. n \in NextBlock(b)
    BY <1>4, <2>1 DEF NextBlock
  <2>3. ASSUME NEW c \in NextBlock(b) PROVE c = n
    <3>1. c \in DOMAIN blocks /\ c > b /\ c <= n
      BY <2>1, <2>3 DEF NextBlock
    <3> QED
      BY <1>2, <1>3, <1>4, <3>1
  <2>4. NextBlock(b) = {n}
    BY <2>2, <2>3
  <2> QED
    BY <1>5, <2>4 DEF n
<1>6. CASE n \notin Addresses
  <2>1. n = End
    BY <1>2, <1>6
  <2> HIDE DEF n
  <2>2. NextBlock(b) = {}
    <3> SUFFICES ASSUME NEW c \in NextBlock(b) PROVE FALSE
      OBVIOUS
    <3>1. c \in DOMAIN blocks /\ c > b
      BY DEF NextBlock
    <3> QED
      BY <1>2, <1>3, <1>4, <2>1, <3>1
  <2> QED
    BY <1>6, <2>2 DEF n
<1> QED
  BY <1>5, <1>6

-----------------------------------------------------------------------------
\* The text of a function that does not begin at address 0 goes where its code goes
\* (TextFollowsCode), for every graph that decode_x86_cfg can recover.
THEOREM TextIsCode == FunctionStart # 0 => (Spec => []TextFollowsCode)
<1> SUFFICES ASSUME FunctionStart # 0 PROVE Spec => []TextFollowsCode
  OBVIOUS
<1>1. IInv /\ EdgesExact => TextFollowsCode
  <2> SUFFICES ASSUME IInv, EdgesExact, pc = "done", ~LimitReached, Split, Apart,
                      NEW b \in DOMAIN blocks, NEW i \in 1 .. Len(blocks[b].instructions)
               PROVE  TextFlow(b, i) = Flow(blocks[b].instructions[i])
    BY DEF TextFollowsCode
  <2> DEFINE s == blocks[b].instructions
             a == s[i]
  <2>1. /\ Len(s) \in Nat \ {0} /\ Chain(s, b) /\ TypeOK
        /\ a \in Addresses
    BY BlockFacts DEF IInv
  <2>2. code[a].control \in Controls
    BY <2>1, FlowFacts
  <2>3. CASE i < Len(s)
    <3>1. i \in 1 .. Len(s) - 1 /\ i + 1 \in 1 .. Len(s)
      BY <2>1, <2>3
    <3>2. code[a].control \notin Transfers /\ s[i + 1] = NextIp(a)
      BY <2>1, <3>1 DEF Chain
    <3>3. s[i + 1] \in Addresses
      BY <3>1, BlockFacts
    <3>4. Flow(a) = {s[i + 1]}
      BY <2>1, <3>2, <3>3, PushedIsFlow
    <3>5. TextFlow(b, i) = Below(b, i)
      BY <3>2 DEF TextFlow, Transfers
    <3> QED
      BY <2>3, <3>4, <3>5 DEF Below
  <2>4. CASE ~(i < Len(s))
    <3>1. i = Len(s) /\ a = LastOf(b)
      BY <2>1, <2>4, BlockFacts
    <3>2. Flow(a) \subseteq DOMAIN blocks
      <4>1. ~Truncated(b)
        BY DEF Truncated, LimitReached
      <4> QED
        BY <3>1, <4>1 DEF EdgesExact, Split
    <3>3. Below(b, i) = NextBlock(b)
      BY <2>4 DEF Below
    <3>4. code[a].control \in Controls \ {"jump", "return"} => NextBlock(b) = {NextIp(a)} \cap Addresses
      <4> SUFFICES ASSUME code[a].control \in Controls \ {"jump", "return"}
                   PROVE  NextBlock(b) = {NextIp(a)} \cap Addresses
        OBVIOUS
      <4>1. {NextIp(a)} \cap Addresses \subseteq Flow(a)
        BY DEF Controls, Flow
      <4> QED
        BY <3>1, <3>2, <4>1, NextBlockIsNext
    <3>5. RawTarget(a) \cap Addresses = {code[a].branch} \cap Addresses
      <4>1. 0 \notin Addresses /\ NoTarget \notin Addresses
        BY <2>1, NumberFacts DEF NoTarget
      <4> QED
        BY <4>1 DEF RawTarget
    <3>6. DOMAIN blocks \subseteq Addresses
      BY <2>1 DEF TypeOK
    <3>7. code[a].control \in {"jump", "conditional"} => Label(a) = {code[a].branch} \cap Addresses
      <4> SUFFICES ASSUME code[a].control \in {"jump", "conditional"}
                   PROVE  Label(a) = {code[a].branch} \cap Addresses
        OBVIOUS
      <4>1. {code[a].branch} \cap Addresses \subseteq Flow(a)
        BY DEF Flow
      <4> QED
        BY <3>2, <3>5, <3>6, <4>1 DEF Label
    <3>8. CASE code[a].control = "return"
      BY <3>8 DEF TextFlow, Flow
    <3>9. CASE code[a].control = "conditional"
      BY <3>3, <3>4, <3>7, <3>9 DEF TextFlow, Flow, Controls
    <3>10. CASE code[a].control = "jump"
      <4>1. Flow(a) = {code[a].branch} \cap Addresses
        BY <3>10 DEF Flow
      <4>2. CASE FallsThrough(b)
        <5>1. RawTarget(a) = NextBlock(b) /\ NextBlock(b) \subseteq Addresses
          BY <3>1, <3>6, <4>2 DEF FallsThrough, NextBlock
        <5>2. TextFlow(b, i) = NextBlock(b)
          BY <3>3, <3>10, <4>2 DEF TextFlow
        <5> QED
          BY <3>5, <4>1, <5>1, <5>2
      <4>3. CASE ~FallsThrough(b)
        BY <3>7, <3>10, <4>1, <4>3 DEF TextFlow
      <4> QED
        BY <4>2, <4>3
    <3>11. CASE code[a].control \in {"next", "call"}
      BY <3>3, <3>4, <3>11 DEF TextFlow, Flow, Controls
    <3> QED
      BY <2>2, <3>8, <3>9, <3>10, <3>11 DEF Controls
  <2> QED
    BY <2>3, <2>4
<1>2. Spec => []EdgesExact
  BY ExactEdges
<1> QED
  BY Inductive, <1>1, <1>2, PTL

\* A loop shows (LoopsMarked): control that can stay among some instructions leaves the
\* highest block it can be in by its end, for an edge to that block or one before it.
THEOREM LoopsAreMarked == FunctionStart # 0 => (Spec => []LoopsMarked)
<1> SUFFICES ASSUME FunctionStart # 0 PROVE Spec => []LoopsMarked
  OBVIOUS
<1>1. IInv /\ EdgesExact => LoopsMarked
  <2> SUFFICES ASSUME IInv, EdgesExact, pc = "done", Whole, NEW S \in SUBSET decoded, Lasting(S)
               PROVE  S \cap LoopHeaders # {} \/ BackIntoMiddle(S)
    BY DEF LoopsMarked
  <2> DEFINE B == {c \in DOMAIN blocks : Held(c) \cap S # {}}
  <2>1. ASSUME NEW a \in S PROVE \E c \in B : a \in Held(c)
    <3>1. a \in Addresses /\ Elements(instructions) = {}
      BY DEF IInv, LocalsInv, TypeOK, Elements
    <3>2. PICK c \in DOMAIN blocks : a \in Held(c)
      BY <3>1 DEF IInv, HeldInv
    <3> QED
      BY <3>2
  <2>2. PICK b \in B : \A c \in B : c <= b
    <3>1. End \in Nat /\ B \in SUBSET (0 .. End)
      BY NumberFacts DEF IInv, TypeOK
    <3>2. B # {}
      BY <2>1 DEF Lasting
    <3> QED
      BY <3>1, <3>2, Largest
  <2> DEFINE s == blocks[b].instructions
             I == {i \in 1 .. Len(s) : s[i] \in S}
  <2>3. Len(s) \in Nat \ {0} /\ Chain(s, b)
    BY BlockFacts
  <2>4. PICK i \in I : \A j \in I : j <= i
    <3>1. I \in SUBSET (0 .. Len(s))
      BY <2>3
    <3>2. I # {}
      BY DEF Held, Elements
    <3> HIDE DEF I
    <3> QED
      BY <2>3, <3>1, <3>2, Largest
  <2>5. i = Len(s)
    <3> SUFFICES ASSUME i # Len(s) PROVE FALSE
      OBVIOUS
    <3>1. i \in 1 .. Len(s) - 1 /\ i + 1 \in 1 .. Len(s)
      BY <2>3
    <3>2. s[i] \in Addresses /\ s[i + 1] \in Addresses
      BY <3>1, BlockFacts DEF IInv
    <3>3. Flow(s[i]) = {s[i + 1]}
      BY <2>3, <3>1, <3>2, PushedIsFlow DEF Chain, IInv
    <3>4. i + 1 \in I
      BY <3>1, <3>3 DEF Lasting
    <3> QED
      BY <2>3, <2>4, <3>1, <3>4
  <2>6. LastOf(b) \in S
    BY <2>4, <2>5, BlockFacts
  <2>7. PICK t \in Flow(LastOf(b)) : t \in S
    BY <2>6 DEF Lasting
  <2>8. PICK c \in B : t \in Held(c)
    BY <2>1, <2>7
  <2>9. CASE t = c
    <3>1. t \in blocks[b].successors
      BY <2>7 DEF EdgesExact, Whole
    <3>2. t \in LoopsBackTo(b)
      BY <2>2, <2>9, <3>1 DEF LoopsBackTo
    <3> QED
      BY <2>7, <3>2 DEF LoopHeaders
  <2>10. CASE t # c
    BY <2>2, <2>6, <2>7, <2>8, <2>10 DEF BackIntoMiddle
  <2> QED
    BY <2>9, <2>10
<1>2. Spec => []EdgesExact
  BY ExactEdges
<1> QED
  BY Inductive, <1>1, <1>2, PTL

-----------------------------------------------------------------------------
(***************************************************************************)
(* The values.                                                             *)
(***************************************************************************)
P == INSTANCE LiftProofs WITH
       Addresses <- UNION {FunctionStart .. FunctionStart + n : n \in FunctionSizes},
       Effects   <- {i.effect : i \in Instructions},
       Functions <- {},
       effect    <- [a \in DOMAIN code |-> code[a].effect],
       queue     <- work,
       queued    <- waiting

-----------------------------------------------------------------------------
(***************************************************************************)
(* NativeLift and LiftProofs each have an instance of Lift: they say the    *)
(* same.                                                                    *)
(***************************************************************************)
LEMMA SameIdle == L!Idle <=> P!Idle
BY DEF L!Idle, P!Idle, L!Unbound, P!Unbound, L!Complex, P!Complex

LEMMA SameApply == \A s, i : L!Apply(s, i) = P!Apply(s, i)
BY DEF L!Apply, P!Apply, L!Bind, P!Bind, L!Remove, P!Remove, L!Bounded, P!Bounded,
       L!Resolve, P!Resolve, L!Combined, P!Combined, L!ValueIn, P!ValueIn, L!NameOf, P!NameOf,
       L!CallResult, P!CallResult, L!Complex, P!Complex

LEMMA SameRun == \A b, s, n : L!RunTo(b, s, n) = P!RunTo(b, s, n)
BY SameApply DEF L!RunTo, P!RunTo

LEMMA SameStep == L!Next => P!Next
<1> SUFFICES ASSUME L!Next PROVE P!Next
  OBVIOUS
<1>1. L!Begin => P!Begin
  BY DEF L!Begin, P!Begin, L!Least, P!Least, L!InitialState, P!InitialState, L!Argument, P!Argument,
         L!input, P!input, L!locals, P!locals
<1>2. L!NoBlocks => P!NoBlocks
  BY DEF L!NoBlocks, P!NoBlocks, L!input, P!input, L!locals, P!locals
<1>3. L!WorkListEmpty => P!WorkListEmpty
  BY DEF L!WorkListEmpty, P!WorkListEmpty, L!input, P!input, L!locals, P!locals
<1>4. L!StopAtLimit => P!StopAtLimit
  BY DEF L!StopAtLimit, P!StopAtLimit, L!Pop, P!Pop, L!input, P!input, L!locals, P!locals
<1>5. L!SkipMissing => P!SkipMissing
  BY DEF L!SkipMissing, P!SkipMissing, L!Pop, P!Pop, L!input, P!input, L!locals, P!locals
<1>6. L!RunBlock => P!RunBlock
  BY DEF L!RunBlock, P!RunBlock, L!Pop, P!Pop, L!input, P!input, L!locals, P!locals
<1>7. L!ApplyInstruction => P!ApplyInstruction
  BY SameApply DEF L!ApplyInstruction, P!ApplyInstruction, L!input, P!input, L!locals, P!locals
<1>8. L!EndOfBlock => P!EndOfBlock
  BY DEF L!EndOfBlock, P!EndOfBlock, L!input, P!input, L!locals, P!locals
<1>9. L!MergeSuccessor => P!MergeSuccessor
  BY DEF L!MergeSuccessor, P!MergeSuccessor, L!Least, P!Least, L!Changed, P!Changed,
         L!Merged, P!Merged, L!Meet, P!Meet, L!input, P!input, L!locals, P!locals
<1>10. L!NextBlock => P!NextBlock
  BY DEF L!NextBlock, P!NextBlock, L!input, P!input, L!locals, P!locals
<1> QED
  BY <1>1, <1>2, <1>3, <1>4, <1>5, <1>6, <1>7, <1>8, <1>9, <1>10 DEF L!Next, P!Next

-----------------------------------------------------------------------------

LEMMA SameFinite == \A S : IsFiniteSet(S) <=> P!IsFiniteSet(S)
BY DEF IsFiniteSet, P!IsFiniteSet

LEMMA SameCardinality == \A S : Cardinality(S) = P!Cardinality(S)
BY DEF Cardinality, P!Cardinality, IsFiniteSet, P!IsFiniteSet

AllAddresses == UNION {FunctionStart .. FunctionStart + n : n \in FunctionSizes}
AllEffects   == {i.effect : i \in Instructions}

LEMMA AddressesAreFinite == AllAddresses \subseteq Nat /\ IsFiniteSet(AllAddresses)
<1>1. ASSUME NEW n \in FunctionSizes
      PROVE  /\ FunctionStart .. FunctionStart + n \subseteq Nat
             /\ IsFiniteSet(FunctionStart .. FunctionStart + n)
  <2>1. FunctionStart \in Int /\ FunctionStart + n \in Int
    BY FunctionAssumption
  <2> QED
    BY <2>1, FunctionAssumption, FS_Interval
<1> DEFINE S == {FunctionStart .. FunctionStart + n : n \in FunctionSizes}
<1>2. IsFiniteSet(S)
  <2> DEFINE f == [n \in FunctionSizes |-> FunctionStart .. FunctionStart + n]
  <2>1. f \in Surjection(FunctionSizes, S)
    BY DEF Surjection
  <2> QED
    BY <2>1, MachineAssumption, FS_Surjection
<1>3. \A X \in S : IsFiniteSet(X) /\ X \subseteq Nat
  BY <1>1
<1> QED
  BY <1>2, <1>3, FS_UNION DEF AllAddresses

LEMMA Assumptions ==
  /\ MaxSteps \in Nat
  /\ AllAddresses \subseteq Nat
  /\ P!IsFiniteSet(AllAddresses)
  /\ \A e \in AllEffects :
       /\ e.op \in P!Operations
       /\ e.dst \in Registers
       /\ e.src.kind \in {"register", "value"}
       /\ e.src.kind = "register" => e.src.of \in Registers
       /\ e.src.kind = "value" => P!IsExpression(e.src.of)
  /\ MaxExpression \in Nat \ {0}
  /\ P!IsFiniteSet(Registers)
  /\ ResultRegister \in Registers
  /\ ArgRegisters \subseteq Registers
  /\ Volatile \subseteq Registers
  /\ LowFamilies \subseteq Registers
<1>1. ASSUME NEW e \in AllEffects
      PROVE  /\ e.op \in P!Operations
             /\ e.dst \in Registers
             /\ e.src.kind \in {"register", "value"}
             /\ e.src.kind = "register" => e.src.of \in Registers
             /\ e.src.kind = "value" => P!IsExpression(e.src.of)
  <2>1. \A n \in Word : P!IsExpression(L!Value(n))
    <3> SUFFICES ASSUME NEW n \in Word PROVE P!IsExpression(L!Value(n))
      OBVIOUS
    <3>1. << "value", n >> \in P!Symbols
      BY MachineAssumption DEF P!Symbols, Word
    <3>2. L!Value(n) \in Seq(P!Symbols) /\ Len(L!Value(n)) = 1
      BY <3>1 DEF L!Value
    <3> QED
      BY <3>2, MachineAssumption DEF P!IsExpression
  <2>2. P!IsExpression(L!Complex)
    <3>1. << "complex" >> \in P!Symbols
      BY DEF P!Symbols
    <3>2. L!Complex \in Seq(P!Symbols) /\ Len(L!Complex) = 1
      BY <3>1 DEF L!Complex
    <3> QED
      BY <3>2, MachineAssumption DEF P!IsExpression
  <2> QED
    BY <2>1, <2>2, OperandAssumption DEF L!Operations, P!Operations, AllEffects
<1> QED
  BY <1>1, MachineAssumption, RegisterFileAssumption, AddressesAreFinite, SameFinite


-----------------------------------------------------------------------------
(***************************************************************************)
(* The recovered graph is a graph that compute_states can take.            *)
(***************************************************************************)
LEMMA GraphIsInput == IInv => P!InputInv
<1> SUFFICES ASSUME IInv PROVE P!InputInv
  OBVIOUS
<1>1. TypeOK
  BY DEF IInv
<1>2. /\ FunctionStart \in Nat /\ size \in Nat /\ size \in FunctionSizes
      /\ End = FunctionStart + size
      /\ Addresses = FunctionStart .. FunctionStart + size - 1
  BY <1>1, FunctionAssumption DEF TypeOK, Addresses, End
<1>3. DOMAIN code = Addresses /\ \A a \in Addresses : code[a] \in Instructions
  BY <1>1, <1>2 DEF TypeOK, Programs
<1>4. Addresses \subseteq AllAddresses
  <2>1. FunctionStart .. FunctionStart + size - 1 \subseteq FunctionStart .. FunctionStart + size
    BY <1>2
  <2> QED
    BY <1>2, <2>1 DEF AllAddresses
<1>5. /\ DOMAIN blocks \subseteq AllAddresses
      /\ \A b \in DOMAIN blocks : /\ blocks[b].instructions \in Seq(DOMAIN code)
                                  /\ blocks[b].successors \subseteq AllAddresses
  BY <1>1, <1>3, <1>4 DEF TypeOK
<1>6. \A a \in DOMAIN code : [c \in DOMAIN code |-> code[c].effect][a] \in AllEffects
  BY <1>3 DEF AllEffects
<1>7. DOMAIN [c \in DOMAIN code |-> code[c].effect] = DOMAIN code
  OBVIOUS
<1> QED
  BY <1>5, <1>6, <1>7 DEF P!InputInv, AllAddresses, AllEffects

\* The analysis stands still until there is a graph, and then keeps its invariants.
Solving == P!IInv /\ P!RunInv /\ P!EntryInv /\ P!DoneInv /\ P!ReachedInv

LiftInv == /\ pc # "done" => L!Idle
           /\ L!Idle \/ Solving

LEMMA LiftSolves == IInv /\ LiftInv => Solving
<1>1. IInv /\ L!Idle => P!IInv
  BY SameIdle, GraphIsInput, P!IdleIInv, Assumptions DEF AllAddresses, AllEffects
<1>2. L!Idle => P!RunInv /\ P!EntryInv /\ P!DoneInv /\ P!ReachedInv
  BY SameIdle, P!IdleRuns, Assumptions DEF AllAddresses, AllEffects
<1> QED
  BY <1>1, <1>2 DEF LiftInv, Solving

LEMMA SolvingKept == Solving /\ [P!Next]_(P!vars) => Solving'
<1> SUFFICES ASSUME Solving, [P!Next]_(P!vars) PROVE Solving'
  OBVIOUS
<1>1. P!IInv'
  BY P!StepIInv, Assumptions DEF Solving, AllAddresses, AllEffects
<1>2. P!RunInv'
  BY P!RunsKept, Assumptions DEF Solving, AllAddresses, AllEffects
<1>3. P!EntryInv'
  BY P!EntryKept, Assumptions DEF Solving, AllAddresses, AllEffects
<1>4. P!DoneInv'
  BY P!DoneKept, Assumptions DEF Solving, AllAddresses, AllEffects
<1>5. P!ReachedInv'
  BY P!ReachedKept, Assumptions DEF Solving, AllAddresses, AllEffects
<1> QED
  BY <1>1, <1>2, <1>3, <1>4, <1>5 DEF Solving

\* A step of the whole is one of the recovery, or, when that is done, of the analysis.
LEMMA LiftSteps ==
  ASSUME [LiftNext]_allVars
  PROVE  /\ [Next]_cfgVars
         /\ \/ UNCHANGED liftVars
            \/ pc = "done" /\ UNCHANGED cfgVars /\ UNCHANGED machine /\ L!Next
         /\ pc = "done" => UNCHANGED cfgVars /\ [P!Next]_(P!vars)
<1>1. [Next]_cfgVars
  BY DEF LiftNext, allVars, cfgVars, Recover, Propagate, Call, Execute
<1>2. \/ UNCHANGED liftVars
      \/ pc = "done" /\ UNCHANGED cfgVars /\ UNCHANGED machine /\ L!Next
  BY DEF LiftNext, allVars, Recover, Propagate, Call, Execute
<1>3. pc = "done" => UNCHANGED cfgVars
  <2>1. pc = "done" => ~Next
    BY DEF Next, WorkListEmpty, StopAtLimit, SkipOutside, BeginBlock, StopDecoding, JoinDecoded,
           DecodeInstruction, FinishBlock
  <2> QED
    BY <1>1, <2>1 DEF cfgVars
<1>4. UNCHANGED liftVars /\ UNCHANGED cfgVars => UNCHANGED P!vars
  BY DEF liftVars, cfgVars, vars, P!vars, P!input, P!locals
<1> QED
  BY <1>1, <1>2, <1>3, <1>4, SameStep

LEMMA LiftKept == IInv /\ LiftInv /\ [LiftNext]_allVars => LiftInv'
<1> SUFFICES ASSUME IInv, LiftInv, [LiftNext]_allVars PROVE LiftInv'
  OBVIOUS
<1>1. CASE pc = "done"
  <2>1. UNCHANGED cfgVars /\ [P!Next]_(P!vars)
    BY <1>1, LiftSteps
  <2>2. Solving'
    BY <2>1, LiftSolves, SolvingKept
  <2> QED
    BY <1>1, <2>1, <2>2 DEF LiftInv, cfgVars, vars
<1>2. CASE pc # "done"
  <2>1. L!Idle /\ UNCHANGED liftVars
    BY <1>2, LiftSteps DEF LiftInv
  <2>2. L!Idle'
    BY <2>1 DEF L!Idle, liftVars
  <2> QED
    BY <2>2 DEF LiftInv
<1> QED
  BY <1>1, <1>2

\* A graph of which every edge leads to a block is small enough for the limit.
RoomInv == pc = "done" /\ Split => lift # "limit"

LEMMA RoomKept ==
  ASSUME MaxSteps >= MaxBlocks * (Cardinality(Registers) + 1),
         IInv, LimitsHold, LiftInv, RoomInv, [LiftNext]_allVars
  PROVE  RoomInv'
<1>1. CASE pc # "done"
  <2>1. L!Idle /\ UNCHANGED liftVars
    BY <1>1, LiftSteps DEF LiftInv
  <2> QED
    BY <2>1 DEF RoomInv, L!Idle, liftVars
<1>2. CASE pc = "done"
  <2>1. UNCHANGED cfgVars /\ [P!Next]_(P!vars) /\ Solving
    BY <1>2, LiftSteps, LiftSolves
  <2> SUFFICES ASSUME Split PROVE lift' # "limit"
    BY <2>1 DEF RoomInv, Split, cfgVars, vars
  <2> DEFINE n == Cardinality(Registers) + 1
             a == Cardinality(DOMAIN states)
             b == Cardinality(DOMAIN blocks)
  <2>2. DOMAIN states \subseteq DOMAIN blocks
    BY <2>1 DEF Solving, P!ReachedInv, Split
  <2>3. IsFiniteSet(DOMAIN blocks)
    <3>1. P!InputInv
      BY GraphIsInput
    <3> QED
      BY <3>1, AddressesAreFinite, FS_Subset DEF P!InputInv, AllAddresses
  <2>4. n \in Nat /\ a \in Nat /\ b \in Nat /\ a <= b
    BY <2>2, <2>3, RegisterFileAssumption, FS_Subset, FS_CardinalityType
  <2>5. b <= MaxBlocks /\ MaxBlocks \in Nat /\ MaxBlocks * n <= MaxSteps
    BY LimitAssumption DEF LimitsHold
  <2> HIDE DEF n, a, b
  <2>6. /\ a * n <= b * n /\ b * n <= MaxBlocks * n
        /\ a * n \in Nat /\ b * n \in Nat /\ MaxBlocks * n \in Nat
    BY <2>4, <2>5
  <2>7. a * n <= MaxSteps
    BY <2>5, <2>6, MachineAssumption
  <2>8. P!Cardinality(DOMAIN states) * (P!Cardinality(Registers) + 1) <= MaxSteps
    BY <2>7, SameCardinality DEF a, n
  <2>9. lift # "limit" /\ P!IInv
    BY <1>2, <2>1 DEF RoomInv, Solving
  <2> QED
    BY <2>1, <2>8, <2>9, P!StepsSuffice, Assumptions DEF AllAddresses, AllEffects
<1> QED
  BY <1>1, <1>2

-----------------------------------------------------------------------------
(***************************************************************************)
(* The machine.                                                            *)
(***************************************************************************)
MachineInv ==
  /\ entry \in [Registers -> Word]
  /\ regs \in [Registers -> Word]
  /\ at # NotCalled => Finished

\* Widths divide.
LEMMA RemainderOfRemainder ==
  ASSUME NEW x \in Int
  PROVE  (x % Modulus) % Narrow = x % Narrow
<1> DEFINE M == Modulus
           n == Narrow
           q == x \div M
           r == x % M
           p == r \div n
           t == r % n
           u == x \div n
           v == x % n
<1>1. PICK k \in 1 .. M : M = k * n
  BY MachineAssumption
<1>2. M \in Nat \ {0} /\ n \in Nat \ {0} /\ k \in Int /\ M = n * k
  BY <1>1, MachineAssumption
<1> HIDE DEF M, n
<1>3. q \in Int /\ r \in 0 .. M - 1 /\ x = M * q + r
  BY <1>2, P!Division, Assumptions DEF AllAddresses, AllEffects
<1>4. r \in Int
  BY <1>2, <1>3
<1>5. p \in Int /\ t \in 0 .. n - 1 /\ r = n * p + t
  BY <1>2, <1>4, P!Division, Assumptions DEF AllAddresses, AllEffects
<1>6. u \in Int /\ v \in 0 .. n - 1 /\ x = n * u + v
  BY <1>2, P!Division, Assumptions DEF AllAddresses, AllEffects
<1> HIDE DEF q, r, p, t, u, v
<1>7. n * (k * q + p) + t = n * u + v
  <2>1. (n * k) * q = n * (k * q) /\ k * q \in Int
    BY <1>2, <1>3
  <2>2. n * (k * q + p) = n * (k * q) + n * p
    BY <1>2, <1>5, <2>1
  <2>3. n * (k * q) \in Int /\ n * p \in Int /\ n * u \in Int
    BY <1>2, <1>5, <1>6, <2>1
  <2> QED
    BY <1>2, <1>3, <1>5, <1>6, <2>1, <2>2, <2>3
<1>8. k * q + p \in Int
  BY <1>2, <1>3, <1>5
<1>9. t = v
  BY <1>2, <1>5, <1>6, <1>7, <1>8, P!OneRemainder, Assumptions DEF AllAddresses, AllEffects
<1> QED
  BY <1>9 DEF t, r, v, M, n

\* How far expressions are right beside instructions of a width.
Exact(d, width) == \/ d = Narrow
                   \/ d = Modulus /\ width = "whole"

\* The low half of what is written is what was to be written, and all of it when the
\* whole register is written.
LEMMA WrittenAgrees ==
  ASSUME NEW v \in Word, NEW width \in Widths
  PROVE  /\ Written(v, width) \in Word
         /\ \A d : Exact(d, width) => Written(v, width) % d = v % d
<1> DEFINE low == v % Narrow
<1>1. /\ Modulus \in Nat \ {0} /\ Narrow \in Nat \ {0} /\ v \in Int
      /\ v \in 0 .. Modulus - 1
  BY MachineAssumption DEF Word
<1>2. low \in 0 .. Narrow - 1
  BY <1>1, P!Division, Assumptions DEF AllAddresses, AllEffects
<1>3. PICK k \in 1 .. Modulus : Modulus = k * Narrow
  BY MachineAssumption
<1>4. /\ Modulus - Narrow = Narrow * (k - 1) /\ Modulus >= Narrow
      /\ Narrow * (k - 1) \in Nat /\ k - 1 \in Int
  BY <1>1, <1>3
<1>5. low % Narrow = low
  BY <1>1, <1>2
<1>6. (low + (Modulus - Narrow)) % Narrow = low
  <2> DEFINE x == low + (Modulus - Narrow)
             u == x \div Narrow
             r == x % Narrow
  <2>1. x \in Int /\ x = Narrow * (k - 1) + low
    BY <1>1, <1>2, <1>4
  <2>2. u \in Int /\ r \in 0 .. Narrow - 1 /\ x = Narrow * u + r
    BY <1>1, <2>1, P!Division, Assumptions DEF AllAddresses, AllEffects
  <2> HIDE DEF x, u, r, low
  <2>3. r = low
    BY <1>1, <1>2, <1>4, <2>1, <2>2, P!OneRemainder, Assumptions DEF AllAddresses, AllEffects
  <2> QED
    BY <2>3 DEF x, r
<1>7. CASE width = "whole"
  BY <1>7 DEF Written
<1>8. CASE width = "low"
  <2>1. Written(v, width) = low
    BY <1>8 DEF Written
  <2>2. \A d : Exact(d, width) => d = Narrow
    BY <1>8 DEF Exact
  <2> HIDE DEF low
  <2>3. low \in Word
    BY <1>1, <1>2, <1>4 DEF Word
  <2> QED
    BY <1>5, <2>1, <2>2, <2>3 DEF low
<1>9. CASE width = "signed"
  <2>1. Written(v, width) \in {low + 0, low + (Modulus - Narrow)}
    BY <1>9 DEF Written
  <2>2. \A d : Exact(d, width) => d = Narrow
    BY <1>9 DEF Exact
  <2> HIDE DEF low
  <2>3. low + 0 = low /\ low \in Word /\ low + (Modulus - Narrow) \in Word
    BY <1>1, <1>2, <1>4 DEF Word
  <2>4. /\ Written(v, width) \in Word
        /\ Written(v, width) % Narrow = low
    BY <1>5, <1>6, <2>1, <2>3
  <2> QED
    BY <2>2, <2>4 DEF low
<1> QED
  BY <1>7, <1>8, <1>9 DEF Widths

\* A sum may be cut to words before it is taken to its precision.
LEMMA SumAgrees ==
  ASSUME NEW a \in Int, NEW b \in Int, NEW d \in {Modulus, Narrow}
  PROVE  ((a % d) + (b % d)) % d = ((a + b) % Modulus) % d
<1> DEFINE x == a % d
           y == b % d
<1>1. d \in Nat \ {0} /\ Modulus \in Nat \ {0}
  BY MachineAssumption
<1>2. x \in Int /\ y \in Int
  BY <1>1, P!Division, Assumptions DEF AllAddresses, AllEffects
<1>3. (x + y) % d = (a + y) % d
  <2> HIDE DEF y
  <2> QED
    BY <1>1, <1>2, P!RemainderOfSum, Assumptions DEF AllAddresses, AllEffects
<1>4. (y + a) % d = (b + a) % d
  <2> HIDE DEF x
  <2> QED
    BY <1>1, <1>2, P!RemainderOfSum, Assumptions DEF AllAddresses, AllEffects
<1>5. a + y = y + a /\ a + b = b + a /\ a + b \in Int
  <2> HIDE DEF x, y
  <2> QED
    BY <1>2
<1>6. ((a + b) % Modulus) % d = (a + b) % d
  <2>1. CASE d = Narrow
    BY <1>5, <2>1, RemainderOfRemainder
  <2>2. CASE d = Modulus
    <3> DEFINE w == (a + b) % Modulus
    <3>1. w \in 0 .. Modulus - 1
      BY <1>1, <1>5, P!Division, Assumptions DEF AllAddresses, AllEffects
    <3> HIDE DEF w
    <3>2. w % Modulus = w
      BY <1>1, <3>1
    <3> QED
      BY <2>2, <3>2 DEF w
  <2> QED
    BY <2>1, <2>2
<1> QED
  BY <1>3, <1>4, <1>5, <1>6 DEF x, y

\* The second operand of an instruction has a value.
LEMMA SourceIsWord ==
  ASSUME MachineInv, NEW e \in AllEffects, NEW v \in SourceValues(e.src)
  PROVE  /\ v \in Word
         /\ e.src.kind = "register" => v = regs[e.src.of]
         /\ e.src.kind = "value" => e.src.of \in {<< <<"value", v>> >>, L!Complex}
<1>1. CASE e.src.kind = "register"
  BY <1>1, Assumptions DEF MachineInv, SourceValues
<1>2. CASE e.src.kind = "value"
  BY <1>2 DEF SourceValues, L!Value
<1> QED
  BY <1>1, <1>2, Assumptions

\* Words stay words.
LEMMA ResultsAreWords ==
  ASSUME MachineInv, NEW e \in AllEffects, NEW f \in Results(e)
  PROVE  f \in [Registers -> Word]
<1>1. e.op \in L!Operations /\ e.dst \in Registers /\ e.width \in Widths
  BY OperandAssumption DEF AllEffects
<1>2. regs \in [Registers -> Word]
  BY DEF MachineInv
<1>3. ASSUME NEW v \in Word PROVE [regs EXCEPT ![e.dst] = v] \in [Registers -> Word]
  BY <1>1, <1>2
<1>4. ASSUME NEW v \in Word PROVE [regs EXCEPT ![e.dst] = Written(v, e.width)] \in [Registers -> Word]
  BY <1>1, <1>3, WrittenAgrees
<1>5. ASSUME NEW v \in SourceValues(e.src) PROVE v \in Word /\ (regs[e.dst] + v) % Modulus \in Word
  <2>1. v \in Word /\ regs[e.dst] \in Word
    BY <1>1, <1>2, SourceIsWord
  <2> QED
    BY <2>1, MachineAssumption DEF Word
<1>6. CASE e.op = "mov"
  <2>1. PICK v \in SourceValues(e.src) : f = [regs EXCEPT ![e.dst] = Written(v, e.width)]
    BY <1>6 DEF Results
  <2> QED
    BY <1>4, <1>5, <2>1
<1>7. CASE e.op = "operate"
  <2>1. PICK v \in SourceValues(e.src) :
          f = [regs EXCEPT ![e.dst] = Written((regs[e.dst] + v) % Modulus, e.width)]
    BY <1>7 DEF Results
  <2> QED
    BY <1>4, <1>5, <2>1
<1>8. CASE e.op \in {"call", "none", "widen"}
  BY <1>2, <1>8 DEF Results
<1>9. CASE e.op \in {"clobber", "low_mov", "low_operate"}
  BY <1>3, <1>9 DEF Results
<1> QED
  BY <1>1, <1>6, <1>7, <1>8, <1>9 DEF L!Operations

LEMMA CodeHasEffects ==
  ASSUME IInv, NEW a \in Addresses
  PROVE  a \in DOMAIN code /\ code[a].effect \in AllEffects
<1>1. code \in Programs(size) /\ FunctionStart \in Nat /\ size \in Nat
  BY FunctionAssumption DEF IInv, TypeOK
<1>2. a \in FunctionStart .. FunctionStart + size - 1
  BY <1>1 DEF Addresses, End
<1> QED
  BY <1>1, <1>2 DEF Programs, AllEffects

\* The machine runs when the analysis is at an end.
LEMMA MachineKept == IInv /\ MachineInv /\ [LiftNext]_allVars => MachineInv'
<1> SUFFICES ASSUME IInv, MachineInv, [LiftNext]_allVars PROVE MachineInv'
  OBVIOUS
<1>1. CASE Recover \/ UNCHANGED allVars
  BY <1>1 DEF Recover, allVars, machine, liftVars, MachineInv, Finished
<1>2. CASE Propagate
  <2>1. UNCHANGED machine /\ ~Finished
    BY <1>2 DEF Propagate, Finished, L!Next, L!Begin, L!NoBlocks, L!WorkListEmpty, L!StopAtLimit,
                L!SkipMissing, L!RunBlock, L!Pop, L!ApplyInstruction, L!EndOfBlock,
                L!MergeSuccessor, L!NextBlock
  <2> QED
    BY <2>1 DEF machine, MachineInv
<1>3. CASE Call
  BY <1>3 DEF Call, MachineInv, Finished, liftVars
<1>4. CASE Execute
  <2>1. /\ regs' \in Results(code[at].effect) /\ entry' = entry
        /\ at \in Addresses /\ Finished /\ lift' = lift
    BY <1>4 DEF Execute, liftVars
  <2>2. regs' \in [Registers -> Word]
    BY <2>1, CodeHasEffects, ResultsAreWords
  <2> QED
    BY <2>1, <2>2 DEF MachineInv, Finished
<1> QED
  BY <1>1, <1>2, <1>3, <1>4 DEF LiftNext

-----------------------------------------------------------------------------
(***************************************************************************)
(* One instruction, in a symbolic state and in the machine.                *)
(***************************************************************************)
Says(e, args, now, d) == P!Meaning(e, args, now, d)

\* What the state says of a register, whatever path was taken, the register holds, to
\* the precision d.
Sound(s, args, now, d) ==
  /\ P!IsState(s) /\ P!IsFcn(s)
  /\ \A r \in DOMAIN s : P!Fixed(s[r]) => Says(s[r], args, now, d) = now[r] % d

\* A fixed expression says the same after the registers have changed.
LEMMA FixedSaysTheSame ==
  ASSUME NEW e, P!IsExpression(e), P!Fixed(e), NEW args \in [Registers -> Word], NEW now,
         NEW d \in {Modulus, Narrow}
  PROVE  Says(e, args, now, d) \in 0 .. d - 1 /\ \A then : Says(e, args, then, d) = Says(e, args, now, d)
<1>1. e \in Seq(P!Symbols)
  BY DEF P!IsExpression
<1>2. args \in [Registers -> Int] /\ d \in Nat \ {0}
  BY MachineAssumption DEF Word
<1>3. /\ P!Meaning(e, args, now, d) \in 0 .. d - 1
      /\ \A then : P!Meaning(e, args, then, d) = P!Meaning(e, args, now, d)
  BY <1>1, <1>2, P!FixedMeaning, Assumptions DEF AllAddresses, AllEffects
<1> QED
  BY <1>3 DEF Says

\* A symbol that is worth a word says it, to any precision.
LEMMA SymbolSays ==
  ASSUME NEW y \in P!Symbols, NEW args, NEW now, P!Worth(y, args, now) \in Word,
         NEW d \in {Modulus, Narrow}
  PROVE  Says(<< y >>, args, now, d) = P!Worth(y, args, now) % d
<1>1. d \in Nat \ {0} /\ P!Worth(y, args, now) \in Int
  BY MachineAssumption DEF Word
<1> QED
  BY <1>1, P!MeaningOfSymbol, Assumptions DEF Says, AllAddresses, AllEffects

\* A fixed sum says the sum of what its operands say, which are fixed.
LEMMA SumSays ==
  ASSUME NEW e, NEW f, P!IsExpression(e), P!IsExpression(f), P!Fixed(P!Combined(e, f)),
         NEW args \in [Registers -> Word], NEW now, NEW d \in {Modulus, Narrow}
  PROVE  /\ P!Fixed(e) /\ P!Fixed(f)
         /\ Says(P!Combined(e, f), args, now, d)
              = (Says(e, args, now, d) + Says(f, args, now, d)) % d
<1>1. e \in Seq(P!Symbols) /\ f \in Seq(P!Symbols)
  BY DEF P!IsExpression
<1>2. args \in [Registers -> Int]
  BY MachineAssumption DEF Word
<1>3. ASSUME NEW m \in Nat \ {0}
      PROVE  /\ P!Fixed(e) /\ P!Fixed(f)
             /\ P!Meaning(P!Combined(e, f), args, now, m)
                  = (P!Meaning(e, args, now, m) + P!Meaning(f, args, now, m)) % m
  BY <1>1, <1>2, P!MeaningOfCombined, Assumptions, SMTT(60) DEF AllAddresses, AllEffects
<1>4. d \in Nat \ {0}
  BY MachineAssumption
<1> QED
  BY <1>3, <1>4 DEF Says

\* An expression of bounded_expression that is fixed was not cut.
LEMMA BoundedSays ==
  ASSUME NEW e, P!Fixed(P!Bounded(e))
  PROVE  P!Bounded(e) = e
<1>1. ~P!Fixed(P!Complex)
  BY DEF P!Fixed, P!Complex
<1> QED
  BY <1>1 DEF P!Bounded

\* What the state says of an operand, the operand is.
LEMMA OperandSays ==
  ASSUME MachineInv, NEW s, NEW d \in {Modulus, Narrow}, Sound(s, entry, regs, d),
         NEW r \in Registers, P!Fixed(P!ValueIn(s, r))
  PROVE  Says(P!ValueIn(s, r), entry, regs, d) = regs[r] % d
<1>1. ~P!Fixed(P!NameOf(r))
  BY DEF P!Fixed, P!NameOf
<1>2. r \in DOMAIN s
  BY <1>1 DEF P!ValueIn
<1> QED
  BY <1>2 DEF P!ValueIn, Sound

LEMMA SourceSays ==
  ASSUME MachineInv, NEW s, NEW d \in {Modulus, Narrow}, Sound(s, entry, regs, d),
         NEW e \in AllEffects, P!Fixed(P!Resolve(s, e.src)), NEW v \in SourceValues(e.src)
  PROVE  Says(P!Resolve(s, e.src), entry, regs, d) = v % d
<1>1. CASE e.src.kind = "register"
  <2>1. P!Resolve(s, e.src) = P!ValueIn(s, e.src.of) /\ e.src.of \in Registers
    BY <1>1, Assumptions DEF P!Resolve
  <2>2. v = regs[e.src.of]
    BY <1>1, SourceIsWord
  <2> QED
    BY <2>1, <2>2, OperandSays
<1>2. CASE e.src.kind = "value"
  <2> DEFINE y == <<"value", v>>
  <2>1. v \in Word /\ e.src.of \in {<< y >>, L!Complex}
    BY <1>2, SourceIsWord
  <2>2. P!Resolve(s, e.src) = e.src.of
    BY <1>2 DEF P!Resolve
  <2>3. ~P!Fixed(L!Complex)
    BY DEF P!Fixed, L!Complex
  <2>4. P!Resolve(s, e.src) = << y >>
    BY <2>1, <2>2, <2>3
  <2>5. y \in P!Symbols /\ P!Worth(y, entry, regs) = v
    BY <2>1, MachineAssumption DEF P!Symbols, P!Worth, Word
  <2> HIDE DEF y
  <2>6. Says(<< y >>, entry, regs, d) = v % d
    BY <2>1, <2>5, SymbolSays
  <2> QED
    BY <2>4, <2>6
<1> QED
  BY <1>1, <1>2, Assumptions

\* apply_state follows the machine: from a sound state it makes a sound state, for every
\* result of the instruction.
LEMMA ApplySound ==
  ASSUME MachineInv, NEW e \in AllEffects, Follows(e),
         NEW d \in {Modulus, Narrow}, Exact(d, e.width),
         NEW s, Sound(s, entry, regs, d), NEW now \in Results(e)
  PROVE  Sound(P!Apply(s, e), entry, now, d)
<1> DEFINE t == P!Apply(s, e)
<1>1. P!IsState(t) /\ P!IsFcn(t)
  BY P!ApplyIsState, Assumptions DEF Sound, AllAddresses, AllEffects
<1>2. e.op \in P!Operations /\ e.dst \in Registers /\ e.width \in Widths
  BY Assumptions, OperandAssumption DEF AllEffects
<1>3. /\ entry \in [Registers -> Word] /\ regs \in [Registers -> Word]
      /\ now \in [Registers -> Word]
  BY ResultsAreWords DEF MachineInv
<1>4. \A r \in DOMAIN s : r \in Registers /\ P!IsExpression(s[r])
  BY DEF Sound, P!IsState
<1>5. ASSUME NEW r \in DOMAIN s, now[r] = regs[r], P!Fixed(s[r])
      PROVE  Says(s[r], entry, now, d) = now[r] % d
  <2>1. Says(s[r], entry, regs, d) = regs[r] % d
    BY <1>5 DEF Sound
  <2>2. Says(s[r], entry, now, d) = Says(s[r], entry, regs, d)
    BY <1>3, <1>4, <1>5, FixedSaysTheSame
  <2> QED
    BY <1>5, <2>1, <2>2
<1>6. ASSUME NEW x, P!IsExpression(x), P!Fixed(x), Says(x, entry, regs, d) = now[e.dst] % d
      PROVE  Says(x, entry, now, d) = now[e.dst] % d
  BY <1>3, <1>6, FixedSaysTheSame
<1>7. \A r \in Registers : P!IsExpression(P!ValueIn(s, r))
  BY <1>4, P!NamesAreExpressions, Assumptions DEF P!ValueIn, AllAddresses, AllEffects
<1>8. P!IsExpression(P!Resolve(s, e.src))
  BY <1>7, Assumptions DEF P!Resolve
<1> SUFFICES ASSUME NEW r \in DOMAIN t, P!Fixed(t[r]) PROVE Says(t[r], entry, now, d) = now[r] % d
  BY <1>1 DEF Sound
<1>9. CASE e.op = "mov"
  <2> DEFINE x == P!Resolve(s, e.src)
  <2>1. t = P!Bind(s, e.dst, P!Bounded(x))
    BY <1>9 DEF P!Apply
  <2>2. PICK v \in SourceValues(e.src) : now = [regs EXCEPT ![e.dst] = Written(v, e.width)]
    BY <1>9 DEF Results
  <2>3. CASE r = e.dst
    <3>1. t[r] = P!Bounded(x)
      BY <2>1, <2>3 DEF P!Bind
    <3>2. t[r] = x /\ P!Fixed(x)
      BY <3>1, BoundedSays
    <3>3. Says(x, entry, regs, d) = v % d
      BY <3>2, SourceSays
    <3>4. now[e.dst] = Written(v, e.width)
      BY <1>2, <1>3, <2>2
    <3>5. Written(v, e.width) % d = v % d
      BY <1>2, SourceIsWord, WrittenAgrees
    <3> QED
      BY <1>6, <1>8, <2>3, <3>2, <3>3, <3>4, <3>5
  <2>4. CASE r # e.dst
    <3>1. r \in DOMAIN s /\ t[r] = s[r]
      BY <2>1, <2>4 DEF P!Bind
    <3>2. now[r] = regs[r]
      BY <1>3, <1>4, <2>2, <2>4, <3>1
    <3> QED
      BY <1>5, <3>1, <3>2
  <2> QED
    BY <2>3, <2>4
<1>10. CASE e.op = "operate"
  <2> DEFINE x == P!ValueIn(s, e.dst)
             y == P!Resolve(s, e.src)
  <2>1. t = P!Bind(s, e.dst, P!Bounded(P!Combined(x, y)))
    BY <1>10 DEF P!Apply
  <2>2. PICK v \in SourceValues(e.src) :
          now = [regs EXCEPT ![e.dst] = Written((regs[e.dst] + v) % Modulus, e.width)]
    BY <1>10 DEF Results
  <2>3. CASE r = e.dst
    <3>1. t[r] = P!Bounded(P!Combined(x, y))
      BY <2>1, <2>3 DEF P!Bind
    <3>2. t[r] = P!Combined(x, y) /\ P!Fixed(P!Combined(x, y))
      BY <3>1, BoundedSays
    <3>3. P!IsExpression(x) /\ P!IsExpression(y)
      BY <1>2, <1>7, <1>8
    <3>4. /\ P!Fixed(x) /\ P!Fixed(y)
          /\ Says(P!Combined(x, y), entry, regs, d)
               = (Says(x, entry, regs, d) + Says(y, entry, regs, d)) % d
      <4> HIDE DEF x, y
      <4> QED
        BY <1>3, <3>2, <3>3, SumSays
    <3>5. Says(x, entry, regs, d) = regs[e.dst] % d
      BY <1>2, <3>4, OperandSays
    <3>6. Says(y, entry, regs, d) = v % d
      BY <3>4, SourceSays
    <3>7. regs[e.dst] \in Word /\ v \in Word
      BY <1>2, <1>3, SourceIsWord
    <3> DEFINE a == regs[e.dst]
               w == (a + v) % Modulus
    <3>8. w \in Word /\ a \in Int /\ v \in Int
      BY <3>7, MachineAssumption DEF Word
    <3>9. now[e.dst] = Written(w, e.width)
      BY <1>2, <1>3, <2>2
    <3> HIDE DEF x, y, a
    <3>10. ((a % d) + (v % d)) % d = w % d
      BY <3>8, SumAgrees
    <3> HIDE DEF w
    <3>11. Written(w, e.width) % d = w % d
      BY <1>2, <3>8, WrittenAgrees
    <3>12. Says(P!Combined(x, y), entry, regs, d) = now[e.dst] % d
      BY <3>4, <3>5, <3>6, <3>9, <3>10, <3>11 DEF a
    <3>13. P!IsExpression(t[r])
      BY <1>1 DEF P!IsState
    <3> QED
      BY <1>6, <2>3, <3>2, <3>12, <3>13
  <2>4. CASE r # e.dst
    <3>1. r \in DOMAIN s /\ t[r] = s[r]
      BY <2>1, <2>4 DEF P!Bind
    <3>2. now[r] = regs[r]
      BY <1>3, <1>4, <2>2, <2>4, <3>1
    <3> QED
      BY <1>5, <3>1, <3>2
  <2> QED
    BY <2>3, <2>4
<1>11. CASE e.op = "clobber" \/ (e.op = "low_mov" /\ e.dst \in LowFamilies)
  <2>1. t = P!Remove(s, {e.dst})
    BY <1>11 DEF P!Apply
  <2>2. r \in DOMAIN s /\ r # e.dst /\ t[r] = s[r]
    BY <2>1 DEF P!Remove
  <2>3. PICK v \in Word : now = [regs EXCEPT ![e.dst] = v]
    BY <1>11 DEF Results
  <2>4. now[r] = regs[r]
    BY <1>3, <1>4, <2>2, <2>3
  <2> QED
    BY <1>5, <2>2, <2>4
<1>12. CASE e.op = "call"
  <2>1. t = P!Bind(P!Remove(s, Volatile), ResultRegister, P!CallResult)
    BY <1>12 DEF P!Apply
  <2>2. ~P!Fixed(P!CallResult)
    BY DEF P!Fixed, P!CallResult
  <2>3. r # ResultRegister
    BY <2>1, <2>2 DEF P!Bind
  <2>4. r \in DOMAIN s /\ r \notin Volatile /\ t[r] = s[r]
    BY <2>1, <2>3 DEF P!Bind, P!Remove
  <2>5. now[r] = regs[r]
    BY <1>4, <1>12, <2>3, <2>4 DEF Results, Follows
  <2> QED
    BY <1>5, <2>4, <2>5
<1>13. CASE e.op = "none"
  <2>1. t = s /\ now = regs
    BY <1>13 DEF P!Apply, Results
  <2> QED
    BY <1>5, <2>1
<1> QED
  BY <1>9, <1>10, <1>11, <1>12, <1>13 DEF Follows

\* What holds of a state holds of every weaker one.
LEMMA WeakerIsSound ==
  ASSUME NEW s, NEW t, NEW args, NEW now, NEW d, Sound(t, args, now, d), P!Below(s, t),
         P!IsState(s), P!IsFcn(s)
  PROVE  Sound(s, args, now, d)
BY DEF Sound, P!Below

\* What the arguments are called is what they are when the function is entered.
LEMMA ArgumentsSound ==
  ASSUME NEW args \in [Registers -> Word], NEW d \in {Modulus, Narrow}
  PROVE  Sound(P!InitialState, args, args, d)
<1>1. DOMAIN P!InitialState = ArgRegisters /\ ArgRegisters \subseteq Registers
  BY RegisterFileAssumption DEF P!InitialState
<1>2. \A r \in ArgRegisters : P!InitialState[r] = << <<"arg", r>> >>
  BY DEF P!InitialState, P!Argument
<1>3. P!IsState(P!InitialState) /\ P!IsFcn(P!InitialState)
  <2>1. \A r \in Registers : P!IsExpression(P!Argument(r))
    BY P!NamesAreExpressions, Assumptions DEF AllAddresses, AllEffects
  <2>2. P!IsFcn(P!InitialState)
    BY DEF P!InitialState, P!IsFcn
  <2> QED
    BY <1>1, <1>2, <2>1, <2>2 DEF P!IsState, P!Argument
<1>4. ASSUME NEW r \in ArgRegisters PROVE Says(<< <<"arg", r>> >>, args, args, d) = args[r] % d
  <2>1. <<"arg", r>> \in P!Symbols
    BY <1>1 DEF P!Symbols
  <2>2. P!Worth(<<"arg", r>>, args, args) = args[r] /\ args[r] \in Word
    BY <1>1 DEF P!Worth
  <2> QED
    BY <2>1, <2>2, SymbolSays
<1> QED
  BY <1>1, <1>2, <1>3, <1>4 DEF Sound

-----------------------------------------------------------------------------
(***************************************************************************)
(* The machine and the analysis, side by side.                             *)
(***************************************************************************)

\* When the analysis is done, a successor of a block promises no more than a run of the
\* block from its own state leaves.
LEMMA EdgesWeaken ==
  ASSUME Solving, lift = "done", NEW b \in DOMAIN blocks, b \in DOMAIN states,
         NEW t \in blocks[b].successors
  PROVE  /\ t \in DOMAIN states /\ P!IsState(states[t]) /\ P!IsFcn(states[t])
         /\ P!Below(states[t], P!RunTo(b, states[b], Len(blocks[b].instructions) + 1))
<1>1. work = <<>>
  BY DEF Solving, P!DoneInv
<1>2. b \notin waiting
  BY <1>1 DEF Solving, P!IInv, P!TypeOK, P!Elements
<1>3. ~P!InProgress(b)
  BY DEF P!InProgress
<1>4. /\ b \in DOMAIN out /\ from[b] = states[b]
      /\ t \in DOMAIN states /\ P!Below(states[t], out[b])
  BY <1>2, <1>3 DEF Solving, P!IInv, P!Stable
<1>5. out[b] = P!RunTo(b, states[b], Len(blocks[b].instructions) + 1)
  BY <1>4 DEF Solving, P!RunInv
<1>6. P!IsState(states[t]) /\ P!IsFcn(states[t])
  BY <1>4 DEF Solving, P!IInv, P!TypeOK, P!FcnInv
<1> QED
  BY <1>4, <1>5, <1>6

\* One more instruction of a block.
LEMMA RunFollows ==
  ASSUME NEW b, NEW s, NEW n \in Nat \ {0}, blocks[b].instructions[n] \in DOMAIN code
  PROVE  P!RunTo(b, s, n + 1) = P!Apply(P!RunTo(b, s, n), code[blocks[b].instructions[n]].effect)
<1>1. P!RunTo(b, s, n + 1)
        = P!Apply(P!RunTo(b, s, n), [a \in DOMAIN code |-> code[a].effect][blocks[b].instructions[n]])
  BY P!RunToNext, Assumptions DEF AllAddresses, AllEffects
<1> QED
  BY <1>1

LEMMA RunBegins == \A b, s : P!RunTo(b, s, 1) = s
BY P!RunToFirst, Assumptions DEF AllAddresses, AllEffects

\* The machine is at the i-th instruction of the block b.
StandsAt(b, i) ==
  /\ b \in DOMAIN blocks /\ b \in DOMAIN states
  /\ i \in 1 .. Len(blocks[b].instructions)
  /\ blocks[b].instructions[i] = at
  /\ Sound(P!RunTo(b, states[b], i), entry, regs, Precision)

\* The precision is that of whole registers or of their low halves.
LEMMA PrecisionIsWidth == Precision \in {Modulus, Narrow}
BY DEF Precision

SoundInv == Split /\ Whole /\ Followed /\ at \in Addresses => \E b, i : StandsAt(b, i)

LEMMA Frozen ==
  ASSUME UNCHANGED <<cfgVars, liftVars>>
  PROVE  /\ (Split' => Split) /\ (Whole' => Whole) /\ (Followed' => Followed)
         /\ Addresses' = Addresses /\ blocks' = blocks /\ states' = states
         /\ Precision' = Precision
         /\ \A b, s, n : P!RunTo(b, s, n)' = P!RunTo(b, s, n)
<1>1. UNCHANGED <<size, code, decoded, blocks, total, states>>
  BY DEF cfgVars, vars, liftVars
<1>2. \A b, s, n : P!RunTo(b, s, n)' = P!RunTo(b, s, n)
  <2>1. UNCHANGED <<blocks, [a \in DOMAIN code |-> code[a].effect]>>
    BY <1>1
  <2> QED
    BY <2>1, P!RunToKept, Assumptions DEF AllAddresses, AllEffects
<1>3. (Whole' => Whole) /\ (Split' => Split) /\ (Followed' => Followed) /\ Addresses' = Addresses
  BY <1>1 DEF Whole, Truncated, LastOf, Split, Followed, Addresses, End
<1>4. Precision' = Precision
  BY <1>1 DEF Precision
<1> QED
  BY <1>1, <1>2, <1>3, <1>4

FirstHeld == pc = "done" /\ FunctionStart \in Addresses => FunctionStart \in DOMAIN blocks

\* The call: the first block of the list is where the function is entered.
LEMMA CallSound ==
  ASSUME IInv, LiftInv, FirstHeld, Call
  PROVE  SoundInv'
<1> SUFFICES ASSUME at' \in Addresses PROVE \E b, i : StandsAt(b, i)'
  BY Frozen DEF SoundInv, Call
<1>1. /\ UNCHANGED <<cfgVars, liftVars>> /\ Finished
      /\ entry' \in [Registers -> Word] /\ regs' = entry' /\ at' = FunctionStart
  BY DEF Call
<1>2. pc = "done" /\ lift # "start" /\ Solving
  BY <1>1, LiftSolves DEF LiftInv, L!Idle, Finished
<1> DEFINE b == FunctionStart
<1>3. b \in DOMAIN blocks
  BY <1>1, <1>2 DEF FirstHeld
<1>4. P!Least(DOMAIN blocks) = b
  <2>1. \A c \in DOMAIN blocks : c \in Nat /\ b <= c
    BY NumberFacts DEF IInv, TypeOK
  <2>2. \A c \in DOMAIN blocks : (\A d \in DOMAIN blocks : c <= d) => c = b
    BY <1>3, <2>1
  <2> QED
    BY <1>3, <2>1, <2>2 DEF P!Least
<1>5. /\ b \in DOMAIN states /\ P!Below(states[b], P!InitialState)
      /\ P!IsState(states[b]) /\ P!IsFcn(states[b])
  BY <1>2, <1>3, <1>4 DEF Solving, P!EntryInv, P!IInv, P!TypeOK, P!FcnInv
<1>6. Sound(states[b], entry', regs', Precision)
  BY <1>1, <1>5, ArgumentsSound, WeakerIsSound, PrecisionIsWidth
<1>7. 1 \in 1 .. Len(blocks[b].instructions) /\ blocks[b].instructions[1] = b
  BY <1>3, BlockFacts DEF Chain
<1>8. /\ blocks' = blocks /\ states' = states /\ Precision' = Precision
      /\ \A n : P!RunTo(b, states[b], n)' = P!RunTo(b, states[b], n)
  BY <1>1, Frozen
<1>9. Sound(P!RunTo(b, states[b], 1), entry, regs, Precision)'
  <2>1. P!RunTo(b, states[b], 1)' = states[b]
    BY <1>8, RunBegins
  <2> QED
    BY <1>6, <1>8, <2>1 DEF Sound, Says
<1>10. StandsAt(b, 1)'
  BY <1>1, <1>3, <1>5, <1>7, <1>8, <1>9 DEF StandsAt
<1> QED
  BY <1>10

\* An instruction: on to the next of the block, or along an edge of the graph.
LEMMA ExecuteSound ==
  ASSUME IInv, EdgesExact, LiftInv, RoomInv, MachineInv, SoundInv, Execute
  PROVE  SoundInv'
<1> SUFFICES ASSUME Split, Whole, Followed, at' \in Addresses PROVE \E b, i : StandsAt(b, i)'
  BY Frozen DEF SoundInv, Execute
<1>1. /\ UNCHANGED <<cfgVars, liftVars>> /\ Finished /\ at \in Addresses
      /\ regs' \in Results(code[at].effect) /\ entry' = entry
      /\ at' \in IF Flow(at) = {} THEN {Nowhere} ELSE Flow(at)
  BY DEF Execute
<1>2. PICK b, i : StandsAt(b, i)
  BY <1>1 DEF SoundInv
<1> DEFINE s == blocks[b].instructions
           e == code[at].effect
           now == P!RunTo(b, states[b], i)
<1>3. pc = "done" /\ lift = "done" /\ Solving
  BY <1>1, LiftSolves DEF LiftInv, L!Idle, Finished, RoomInv
<1>4. at' \in Flow(at)
  <2>1. Nowhere \notin Addresses
    BY NumberFacts DEF IInv, Nowhere
  <2> QED
    BY <1>1, <2>1
<1>5. /\ b \in DOMAIN blocks /\ b \in DOMAIN states
      /\ Len(s) \in Nat \ {0} /\ i \in 1 .. Len(s) /\ s[i] = at
      /\ Sound(now, entry, regs, Precision)
  BY <1>2, BlockFacts DEF StandsAt
<1>6. at \in DOMAIN code /\ e \in AllEffects
  BY <1>1, CodeHasEffects
<1>7. Follows(e) /\ Exact(Precision, e.width)
  <2>1. at \in Held(b)
    BY <1>5, BlockFacts
  <2>2. at \in decoded
    BY <1>1, <1>5, <2>1 DEF IInv, HeldInv
  <2>3. Follows(e)
    BY <2>2 DEF Followed
  <2>4. e.width = "whole" \/ Precision = Narrow
    BY <2>2 DEF Precision
  <2>5. Precision \in {Modulus, Narrow}
    BY PrecisionIsWidth
  <2> QED
    BY <2>3, <2>4, <2>5 DEF Exact
<1>8. Sound(P!Apply(now, e), entry, regs', Precision)
  <2> HIDE DEF now, e
  <2> QED
    BY <1>1, <1>5, <1>6, <1>7, ApplySound, PrecisionIsWidth DEF e
<1>9. P!RunTo(b, states[b], i + 1) = P!Apply(now, e)
  <2>1. i \in Nat \ {0} /\ blocks[b].instructions[i] \in DOMAIN code
    BY <1>5, <1>6
  <2> QED
    BY <1>5, <2>1, RunFollows
<1> HIDE DEF now, e
<1>10. /\ blocks' = blocks /\ states' = states /\ Precision' = Precision
       /\ \A c, n : P!RunTo(c, states[c], n)' = P!RunTo(c, states[c], n)
  BY <1>1, Frozen
<1>11. code[at].control \in Controls
  BY <1>1, FlowFacts DEF IInv
<1>12. CASE i < Len(s)
  <2>1. i \in 1 .. Len(s) - 1 /\ i + 1 \in 1 .. Len(s)
    BY <1>5, <1>12
  <2>2. code[at].control \notin Transfers /\ s[i + 1] = NextIp(at)
    BY <1>5, <2>1, BlockFacts DEF Chain
  <2>3. at' = NextIp(at)
    BY <1>4, <1>11, <2>2 DEF Flow, Controls, Transfers
  <2>4. Sound(P!RunTo(b, states[b], i + 1), entry, regs, Precision)'
    BY <1>1, <1>8, <1>9, <1>10 DEF Sound, Says
  <2>5. StandsAt(b, i + 1)'
    BY <1>5, <1>10, <2>1, <2>2, <2>3, <2>4 DEF StandsAt
  <2> QED
    BY <2>5
<1>13. CASE ~(i < Len(s))
  <2> DEFINE t == at'
  <2>1. i = Len(s) /\ LastOf(b) = at
    BY <1>5, <1>13 DEF LastOf
  <2>2. blocks[b].successors = Flow(at)
    BY <1>5, <2>1 DEF EdgesExact, Whole
  <2>3. t \in blocks[b].successors /\ t \in DOMAIN blocks
    BY <1>4, <1>5, <2>2 DEF Split
  <2>4. /\ t \in DOMAIN states /\ P!IsState(states[t]) /\ P!IsFcn(states[t])
        /\ P!Below(states[t], P!RunTo(b, states[b], i + 1))
    BY <1>3, <1>5, <2>1, <2>3, EdgesWeaken
  <2>5. Sound(states[t], entry, regs', Precision)
    BY <1>8, <1>9, <2>4, WeakerIsSound
  <2>6. 1 \in 1 .. Len(blocks[t].instructions) /\ blocks[t].instructions[1] = t
    BY <2>3, BlockFacts DEF Chain
  <2>7. Sound(P!RunTo(t, states[t], 1), entry, regs', Precision)
    BY <2>5, RunBegins
  <2>8. \E c : c = at' /\ StandsAt(c, 1)'
    <3>1. PICK c : c = t
      OBVIOUS
    <3>2. Sound(P!RunTo(c, states[c], 1), entry, regs, Precision)'
      BY <1>1, <1>10, <2>7, <3>1 DEF Sound, Says
    <3>3. StandsAt(c, 1)'
      BY <1>10, <2>3, <2>4, <2>6, <3>1, <3>2 DEF StandsAt
    <3> QED
      BY <3>1, <3>3
  <2> QED
    BY <2>8
<1> QED
  BY <1>12, <1>13

LEMMA SoundKept ==
  ASSUME IInv, EdgesExact, FirstHeld, LiftInv, RoomInv, MachineInv, SoundInv, [LiftNext]_allVars
  PROVE  SoundInv'
<1>1. CASE Recover \/ Propagate
  <2>1. UNCHANGED machine /\ ~Finished
    <3>1. Propagate => ~Finished
      BY DEF Propagate, Finished, L!Next, L!Begin, L!NoBlocks, L!WorkListEmpty, L!StopAtLimit,
             L!SkipMissing, L!RunBlock, L!Pop, L!ApplyInstruction, L!EndOfBlock,
             L!MergeSuccessor, L!NextBlock
    <3>2. Recover => pc # "done"
      BY DEF Recover, Next, WorkListEmpty, StopAtLimit, SkipOutside, BeginBlock, StopDecoding,
             JoinDecoded, DecodeInstruction, FinishBlock
    <3>3. pc # "done" => ~Finished
      BY DEF LiftInv, L!Idle, Finished
    <3> QED
      BY <1>1, <3>1, <3>2, <3>3 DEF Recover, Propagate
  <2>2. at' = NotCalled
    BY <2>1 DEF machine, MachineInv
  <2>3. Addresses' \subseteq Nat
    <3>1. size' = size
      BY <1>1 DEF Recover, Propagate, cfgVars, vars, Next, WorkListEmpty, StopAtLimit, SkipOutside,
                  BeginBlock, StopDecoding, JoinDecoded, DecodeInstruction, FinishBlock
    <3>2. Addresses' = Addresses
      BY <3>1 DEF Addresses, End
    <3> QED
      BY <3>2, NumberFacts DEF IInv
  <2> QED
    BY <2>2, <2>3 DEF SoundInv, NotCalled
<1>2. CASE Call
  BY <1>2, CallSound
<1>3. CASE Execute
  BY <1>3, ExecuteSound
<1>4. CASE UNCHANGED allVars
  <2>1. UNCHANGED <<cfgVars, liftVars, entry, regs, at>>
    BY <1>4 DEF allVars, machine
  <2>2. /\ blocks' = blocks /\ states' = states /\ Addresses' = Addresses
        /\ Precision' = Precision
        /\ (Split' => Split) /\ (Whole' => Whole) /\ (Followed' => Followed)
        /\ \A b, n : P!RunTo(b, states[b], n)' = P!RunTo(b, states[b], n)
    BY <2>1, Frozen
  <2>3. ASSUME NEW b, NEW i, StandsAt(b, i) PROVE StandsAt(b, i)'
    <3>1. Sound(P!RunTo(b, states[b], i), entry, regs, Precision)'
      BY <2>1, <2>2, <2>3 DEF StandsAt, Sound, Says
    <3> QED
      BY <2>1, <2>2, <2>3, <3>1 DEF StandsAt
  <2> QED
    BY <2>1, <2>2, <2>3 DEF SoundInv
<1> QED
  BY <1>1, <1>2, <1>3, <1>4 DEF LiftNext

-----------------------------------------------------------------------------
(***************************************************************************)
(* What is printed.                                                        *)
(***************************************************************************)

\* A block holds no instruction twice.
LEMMA Rises ==
  ASSUME IInv, NEW b \in DOMAIN blocks,
         NEW i \in 1 .. Len(blocks[b].instructions), NEW j \in 1 .. Len(blocks[b].instructions),
         i < j
  PROVE  blocks[b].instructions[i] < blocks[b].instructions[j]
<1> DEFINE s == blocks[b].instructions
           J == {k \in 1 .. Len(s) : i < k /\ ~(s[i] < s[k])}
<1> SUFFICES ASSUME J # {} PROVE FALSE
  OBVIOUS
<1>1. /\ Len(s) \in Nat \ {0} /\ Chain(s, b) /\ TypeOK
      /\ \A k \in 1 .. Len(s) : s[k] \in Nat /\ s[k] \in Addresses
  BY BlockFacts, NumberFacts DEF IInv
<1>2. J \in SUBSET Nat
  OBVIOUS
<1> HIDE DEF J
<1>3. PICK k \in J : \A l \in J : k <= l
  BY <1>2, Least
<1>4. k \in 1 .. Len(s) /\ i < k /\ ~(s[i] < s[k])
  BY <1>3 DEF J
<1>5. k - 1 \in 1 .. Len(s) - 1 /\ k - 1 \in 1 .. Len(s) /\ (k - 1) + 1 = k /\ k - 1 >= i
  BY <1>1, <1>4
<1>6. k - 1 = i \/ s[i] < s[k - 1]
  <2>1. k - 1 \notin J
    BY <1>3, <1>4
  <2> QED
    BY <1>5, <2>1 DEF J
<1>7. s[k] = NextIp(s[k - 1]) /\ NextIp(s[k - 1]) > s[k - 1]
  BY <1>1, <1>5, FlowFacts DEF Chain
<1>8. s[i] \in Nat /\ s[k] \in Nat /\ s[k - 1] \in Nat
  BY <1>1, <1>4, <1>5
<1> QED
  BY <1>4, <1>6, <1>7, <1>8

\* No instruction is printed at two places.
LEMMA OnePlace ==
  ASSUME IInv, NEW b \in DOMAIN blocks, NEW c \in DOMAIN blocks,
         NEW i \in 1 .. Len(blocks[b].instructions), NEW j \in 1 .. Len(blocks[c].instructions),
         blocks[b].instructions[i] = blocks[c].instructions[j]
  PROVE  b = c /\ i = j
<1>1. b = c
  <2>1. blocks[b].instructions[i] \in Held(b) /\ blocks[c].instructions[j] \in Held(c)
    BY BlockFacts
  <2> QED
    BY <2>1 DEF IInv, HeldInv
<1>2. blocks[b].instructions[i] \in Nat /\ i \in Nat /\ j \in Nat
  BY BlockFacts, NumberFacts DEF IInv
<1>3. ~(i < j)
  BY <1>1, <1>2, Rises
<1>4. ~(j < i)
  BY <1>1, <1>2, Rises
<1> QED
  BY <1>1, <1>2, <1>3, <1>4

LEMMA SameMeaning ==
  /\ \A e, args, now, m : L!Meaning(e, args, now, m) = P!Meaning(e, args, now, m)
  /\ \A e : L!Fixed(e) = P!Fixed(e)
<1>1. \A e, args, now, m : L!Meaning(e, args, now, m) = P!Meaning(e, args, now, m)
  BY DEF L!Meaning, P!Meaning, L!Worth, P!Worth
<1>2. \A e : L!Fixed(e) = P!Fixed(e)
  BY DEF L!Fixed, P!Fixed
<1> QED
  BY <1>1, <1>2

\* The state in which the machine's instruction is printed is the sound one.
LEMMA PrintedIsSound ==
  ASSUME IInv, LiftInv, SoundInv, Split, Whole, Followed, at \in Addresses,
         NEW s \in Printed(at)
  PROVE  Sound(s, entry, regs, Precision)
<1>1. PICK b, i : StandsAt(b, i)
  BY DEF SoundInv
<1>2. PICK p \in Places(at) : s = StateBefore(p[1], p[2])
  BY DEF Printed
<1>3. /\ p[1] \in DOMAIN blocks /\ p[2] \in 1 .. Len(blocks[p[1]].instructions)
      /\ blocks[p[1]].instructions[p[2]] = at
  <2>1. /\ p[1] \in DOMAIN blocks /\ p[2] \in 1 .. size
        /\ p[2] <= Len(blocks[p[1]].instructions) /\ blocks[p[1]].instructions[p[2]] = at
    BY <1>2 DEF Places
  <2>2. Len(blocks[p[1]].instructions) \in Nat /\ size \in Nat
    BY <2>1, BlockFacts, NumberFacts DEF IInv
  <2> QED
    BY <2>1, <2>2
<1>4. p[1] = b /\ p[2] = i
  <2> DEFINE c == p[1]
             j == p[2]
  <2>1. /\ c \in DOMAIN blocks /\ j \in 1 .. Len(blocks[c].instructions)
        /\ b \in DOMAIN blocks /\ i \in 1 .. Len(blocks[b].instructions)
        /\ blocks[b].instructions[i] = blocks[c].instructions[j]
    BY <1>1, <1>3 DEF StandsAt
  <2> HIDE DEF c, j
  <2>2. b = c /\ i = j
    BY <2>1, OnePlace
  <2> QED
    BY <2>2 DEF c, j
<1>5. s = P!RunTo(b, states[b], i)
  BY <1>1, <1>2, <1>4, SameRun DEF StateBefore, StandsAt
<1> QED
  BY <1>1, <1>5 DEF StandsAt

-----------------------------------------------------------------------------
(***************************************************************************)
(* The theorems.                                                           *)
(***************************************************************************)

\* The whole runs the recovery as it is, so that all that is proved of it holds here.
THEOREM RecoversGraph == LiftSpec => Spec
<1>1. LiftInit => Init
  BY DEF LiftInit
<1>2. [LiftNext]_allVars => [Next]_vars
  BY LiftSteps DEF cfgVars
<1> QED
  BY <1>1, <1>2, PTL DEF LiftSpec, Spec

\* And then the analysis of its graph, which keeps the invariants of compute_states.
THEOREM SolvesGraph == LiftSpec => []Solving
<1>1. LiftInit => LiftInv
  BY DEF LiftInit, LiftInv
<1> QED
  BY <1>1, LiftKept, LiftSolves, RecoversGraph, Inductive, PTL DEF LiftSpec

\* A number or an argument that is printed for a register is what the register holds,
\* or its low half in code that writes low halves (SplitValuesHold), in every function
\* that does not begin at address 0, for every decoder and register file, when
\* MAX_DATAFLOW_STEPS leaves one step for each block and register (200 000 >= 4096 * 17).
THEOREM ValuesAreTrue ==
  FunctionStart # 0 /\ MaxSteps >= MaxBlocks * (Cardinality(Registers) + 1)
    => (LiftSpec => []SplitValuesHold)
<1> SUFFICES ASSUME FunctionStart # 0, MaxSteps >= MaxBlocks * (Cardinality(Registers) + 1)
             PROVE  LiftSpec => []SplitValuesHold
  OBVIOUS
<1>1. LiftInit => LiftInv /\ RoomInv /\ MachineInv /\ SoundInv
  <2> SUFFICES ASSUME LiftInit PROVE LiftInv /\ RoomInv /\ MachineInv /\ SoundInv
    OBVIOUS
  <2>1. LiftInv /\ RoomInv
    BY DEF LiftInit, LiftInv, RoomInv, L!Idle
  <2>2. MachineInv
    BY MachineAssumption DEF LiftInit, MachineInv, Word
  <2>3. at \notin Addresses
    BY FunctionAssumption DEF LiftInit, Init, NotCalled, Addresses, End
  <2> QED
    BY <2>1, <2>2, <2>3 DEF SoundInv
<1>2. LiftSpec => [](IInv /\ LimitsHold /\ EdgesExact /\ FirstHeld)
  <2>1. Spec => []EdgesExact
    BY ExactEdges
  <2> QED
    BY <2>1, RecoversGraph, Inductive, Limits, FirstBlock, PTL DEF FirstHeld
<1>3. /\ IInv /\ LimitsHold /\ EdgesExact /\ FirstHeld
      /\ LiftInv /\ RoomInv /\ MachineInv /\ SoundInv
      /\ [LiftNext]_allVars
      => LiftInv' /\ RoomInv' /\ MachineInv' /\ SoundInv'
  BY LiftKept, RoomKept, MachineKept, SoundKept
<1>4. IInv /\ LiftInv /\ SoundInv => SplitValuesHold
  <2> SUFFICES ASSUME IInv, LiftInv, SoundInv, Split, Whole, Followed, at \in Addresses,
                      NEW s \in Printed(at), NEW r \in DOMAIN s, L!Fixed(s[r])
               PROVE  L!Meaning(s[r], entry, regs, Precision) = regs[r] % Precision
    BY DEF SplitValuesHold, ValuesHold
  <2>1. Sound(s, entry, regs, Precision)
    BY PrintedIsSound
  <2> QED
    BY <2>1, SameMeaning DEF Sound, Says
<1> QED
  BY <1>1, <1>2, <1>3, <1>4, PTL DEF LiftSpec
=============================================================================
