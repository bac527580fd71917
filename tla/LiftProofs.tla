----------------------------- MODULE LiftProofs -----------------------------
(***************************************************************************)
(* Proofs about Lift, for every graph, register file and bound.            *)
(*                                                                         *)
(* The bound on the number of steps counts tokens: an address has one for  *)
(* its first state and one for every register that is not bound in it.     *)
(* Whoever queues an address has spent a new token of it.                   *)
(***************************************************************************)
EXTENDS Lift, FiniteSetTheorems, WellFoundedInduction, TLAPS

IsFcn(s) == s = [r \in DOMAIN s |-> s[r]]

\* What compute_states assumes of its input, and never changes.
InputInv ==
  /\ DOMAIN blocks \subseteq Addresses
  /\ \A b \in DOMAIN blocks : /\ blocks[b].instructions \in Seq(DOMAIN effect)
                              /\ blocks[b].successors \subseteq Addresses
  /\ \A a \in DOMAIN effect : effect[a] \in Effects

FcnInv ==
  /\ IsFcn(states) /\ IsFcn(state)
  /\ \A a \in DOMAIN states : IsFcn(states[a])
  /\ DOMAIN from = DOMAIN out

StartInv == lift = "start" => DOMAIN states = {} /\ queue = <<>> /\ steps = 0

\* A block whose successors are being merged.
MergeInv ==
  lift = "merge" =>
    /\ left \subseteq blocks[address].successors
    /\ address \in DOMAIN out
    /\ out[address] = state
    /\ address \notin queued => from[address] = states[address]
    /\ \A s \in blocks[address].successors \ left :
         s \in DOMAIN states /\ Below(states[s], state)

New == CHOOSE x : x \notin Registers

Spent == {t \in (DOMAIN states) \X (Registers \cup {New}) :
            t[2] = New \/ t[2] \notin DOMAIN states[t[1]]}

BudgetInv == steps + Len(queue) <= Cardinality(Spent)

IInv == /\ TypeOK /\ InputInv /\ FcnInv /\ StartInv /\ MergeInv /\ Stable /\ BudgetInv

\* What a block made of the state it was last run from, and has made so far of the
\* one it is being run from.
RunInv ==
  /\ \A b \in DOMAIN out : /\ b \in DOMAIN blocks
                          /\ out[b] = RunTo(b, from[b], Len(blocks[b].instructions) + 1)
  /\ lift = "apply" => /\ index \in 1 .. Len(blocks[address].instructions) + 1
                       /\ state = RunTo(address, states[address], index)

\* The first block has a state, which the arguments of the function allow.
EntryInv ==
  lift # "start" /\ DOMAIN blocks # {} =>
    /\ Least(DOMAIN blocks) \in DOMAIN states
    /\ Below(states[Least(DOMAIN blocks)], InitialState)

DoneInv == lift = "done" => queue = <<>>

\* Nothing has a state but blocks and their successors.
ReachedInv ==
  DOMAIN states \subseteq DOMAIN blocks \cup UNION {blocks[b].successors : b \in DOMAIN blocks}

-----------------------------------------------------------------------------
(***************************************************************************)
(* States.                                                                 *)
(***************************************************************************)

\* merge_state takes nothing from neither side but bindings.
LEMMA MeetIsBelow ==
  ASSUME NEW s, NEW t
  PROVE  Below(Meet(s, t), s) /\ Below(Meet(s, t), t)
BY DEF Meet, Below

\* Weakening twice is weakening.
LEMMA BelowTransitive ==
  ASSUME NEW s, NEW t, NEW u, Below(s, t), Below(t, u)
  PROVE  Below(s, u)
BY DEF Below

\* A merge that changes a state unbinds a register.
LEMMA ChangeUnbinds ==
  ASSUME NEW s, NEW t, IsFcn(s), Meet(s, t) # s
  PROVE  \E r \in DOMAIN s : r \notin DOMAIN Meet(s, t)
<1> SUFFICES ASSUME \A r \in DOMAIN s : r \in DOMAIN Meet(s, t)
             PROVE  FALSE
  OBVIOUS
<1>1. {q \in DOMAIN s \cap DOMAIN t : s[q] = t[q]} = DOMAIN s
  BY DEF Meet
<1>2. Meet(s, t) = [r \in DOMAIN s |-> s[r]]
  BY <1>1 DEF Meet
<1> QED
  BY <1>2 DEF IsFcn

\* Merging into a state gives a state.
LEMMA MeetIsState ==
  ASSUME NEW s, NEW t, IsState(s)
  PROVE  IsState(Meet(s, t)) /\ IsFcn(Meet(s, t))
<1>1. DOMAIN Meet(s, t) \subseteq DOMAIN s /\ \A r \in DOMAIN Meet(s, t) : Meet(s, t)[r] = s[r]
  BY DEF Meet
<1>2. IsFcn(Meet(s, t))
  BY DEF Meet, IsFcn
<1> QED
  BY <1>1, <1>2 DEF IsState

\* A register's name, an argument, a call's result and the omission are expressions.
LEMMA NamesAreExpressions ==
  /\ \A r \in Registers : IsExpression(NameOf(r)) /\ IsExpression(Argument(r))
  /\ IsExpression(CallResult) /\ IsExpression(Complex)
<1>1. 1 \in 1 .. MaxExpression
  BY ExpressionAssumption
<1>2. ASSUME NEW y \in Symbols PROVE IsExpression(<< y >>)
  <2>1. << y >> \in Seq(Symbols) /\ Len(<< y >>) = 1
    OBVIOUS
  <2> QED
    BY <1>1, <2>1 DEF IsExpression
<1>3. ASSUME NEW r \in Registers
      PROVE  <<"reg", r>> \in Symbols /\ <<"arg", r>> \in Symbols
  BY DEF Symbols
<1>4. <<"result">> \in Symbols /\ <<"complex">> \in Symbols
  BY DEF Symbols
<1> QED
  BY <1>2, <1>3, <1>4 DEF NameOf, Argument, CallResult, Complex

\* What is built of two expressions is not empty.
LEMMA CombinedIsSequence ==
  ASSUME NEW e \in Seq(Symbols), NEW f \in Seq(Symbols)
  PROVE  /\ Combined(e, f) \in Seq(Symbols)
         /\ Len(Combined(e, f)) = 1 + Len(e) + Len(f)
         /\ Len(Combined(e, f)) > 0
<1>1. <<"op">> \in Symbols
  BY DEF Symbols
<1>2. << <<"op">> >> \in Seq(Symbols) /\ Len(<< <<"op">> >>) = 1
  BY <1>1
<1> HIDE DEF Symbols
<1>3. << <<"op">> >> \o e \in Seq(Symbols) /\ Len(<< <<"op">> >> \o e) = 1 + Len(e)
  BY <1>2
<1> QED
  BY <1>3 DEF Combined

\* What bounded_expression returns is no longer than its limit.
LEMMA BoundedIsExpression ==
  ASSUME NEW e \in Seq(Symbols), Len(e) > 0
  PROVE  IsExpression(Bounded(e))
<1>1. MaxExpression \in Nat /\ Len(e) \in Nat
  BY ExpressionAssumption
<1>2. CASE Len(e) <= MaxExpression
  BY <1>1, <1>2 DEF Bounded, IsExpression
<1>3. CASE Len(e) > MaxExpression
  BY <1>1, <1>3, NamesAreExpressions DEF Bounded
<1> QED
  BY <1>1, <1>2, <1>3

\* An instruction turns a state into a state.
LEMMA ApplyIsState ==
  ASSUME NEW s, NEW i \in Effects, IsState(s), IsFcn(s)
  PROVE  IsState(Apply(s, i)) /\ IsFcn(Apply(s, i))
<1>1. /\ i.op \in Operations /\ i.dst \in Registers
      /\ i.src.kind \in {"register", "value"}
      /\ i.src.kind = "register" => i.src.of \in Registers
      /\ i.src.kind = "value" => IsExpression(i.src.of)
  BY EffectAssumption
<1>2. MaxExpression \in Nat \ {0}
  BY ExpressionAssumption
<1>3. \A r \in Registers : IsExpression(ValueIn(s, r))
  BY NamesAreExpressions DEF ValueIn, IsState
<1>4. IsExpression(Resolve(s, i.src))
  BY <1>1, <1>3 DEF Resolve
<1>6. ASSUME NEW u, IsState(u), NEW r \in Registers, NEW e, IsExpression(e)
      PROVE  IsState(Bind(u, r, e)) /\ IsFcn(Bind(u, r, e))
  <2>1. DOMAIN Bind(u, r, e) = DOMAIN u \cup {r}
    BY DEF Bind
  <2>2. \A q \in DOMAIN u \cup {r} : Bind(u, r, e)[q] = IF q = r THEN e ELSE u[q]
    BY DEF Bind
  <2>3. IsState(Bind(u, r, e))
    BY <1>6, <2>1, <2>2 DEF IsState
  <2>4. IsFcn(Bind(u, r, e))
    BY DEF Bind, IsFcn
  <2> QED
    BY <2>3, <2>4
<1>7. ASSUME NEW R
      PROVE  IsState(Remove(s, R)) /\ IsFcn(Remove(s, R))
  <2>1. DOMAIN Remove(s, R) = DOMAIN s \ R /\ \A q \in DOMAIN s \ R : Remove(s, R)[q] = s[q]
    BY DEF Remove
  <2>2. IsFcn(Remove(s, R))
    BY DEF Remove, IsFcn
  <2> QED
    BY <2>1, <2>2 DEF IsState
<1>8. CASE i.op = "mov"
  <2>1. Apply(s, i) = Bind(s, i.dst, Bounded(Resolve(s, i.src)))
    BY <1>8 DEF Apply
  <2>2. IsExpression(Bounded(Resolve(s, i.src)))
    BY <1>4, BoundedIsExpression DEF IsExpression
  <2> QED
    BY <1>1, <1>6, <2>1, <2>2
<1>9. CASE i.op = "operate"
  <2> DEFINE e == Combined(ValueIn(s, i.dst), Resolve(s, i.src))
  <2>1. Apply(s, i) = Bind(s, i.dst, Bounded(e))
    BY <1>9 DEF Apply
  <2>2. e \in Seq(Symbols) /\ Len(e) > 0
    BY <1>1, <1>3, <1>4, CombinedIsSequence DEF IsExpression
  <2>3. IsExpression(Bounded(e))
    BY <2>2, BoundedIsExpression
  <2> QED
    BY <1>1, <1>6, <2>1, <2>3
<1>10. CASE i.op \in {"clobber", "widen"}
  <2>1. Apply(s, i) = Remove(s, {i.dst})
    BY <1>10 DEF Apply
  <2> QED
    BY <1>7, <2>1
<1>11. CASE i.op = "low_mov"
  <2>1. Apply(s, i) = Remove(s, {i.dst}) \/ Apply(s, i) = s
    BY <1>11 DEF Apply
  <2> QED
    BY <1>7, <2>1
<1>12. CASE i.op = "call"
  <2>1. Apply(s, i) = Bind(Remove(s, Volatile), ResultRegister, CallResult)
    BY <1>12 DEF Apply
  <2>2. IsExpression(CallResult)
    BY NamesAreExpressions
  <2> QED
    BY <1>6, <1>7, <2>1, <2>2, RegisterAssumption
<1>13. CASE i.op \in {"low_operate", "none"}
  BY <1>13 DEF Apply
<1> QED
  BY <1>1, <1>8, <1>9, <1>10, <1>11, <1>12, <1>13 DEF Operations

-----------------------------------------------------------------------------
(***************************************************************************)
(* Tokens.                                                                 *)
(***************************************************************************)

\* The first token of an address is none of its registers'.
LEMMA NewIsNoRegister == New \notin Registers
BY NoSetContainsEverything DEF New

\* There are finitely many tokens: |Registers| + 1 for each address with a state.
LEMMA TokensAreFinite ==
  ASSUME InputInv, TypeOK
  PROVE  /\ IsFiniteSet(Spent)
         /\ IsFiniteSet(DOMAIN states)
         /\ Cardinality(Spent) <= Cardinality(DOMAIN states) * (Cardinality(Registers) + 1)
<1> DEFINE All == (DOMAIN states) \X (Registers \cup {New})
<1>1. IsFiniteSet(DOMAIN states)
  BY BlockAssumption, FS_Subset DEF TypeOK
<1>2. /\ IsFiniteSet(Registers \cup {New})
      /\ Cardinality(Registers \cup {New}) = Cardinality(Registers) + 1
  BY RegisterAssumption, NewIsNoRegister, FS_AddElement
<1>3. /\ IsFiniteSet(All)
      /\ Cardinality(All) = Cardinality(DOMAIN states) * (Cardinality(Registers) + 1)
  <2>1. /\ IsFiniteSet(All)
        /\ Cardinality(All) = Cardinality(DOMAIN states) * Cardinality(Registers \cup {New})
    BY <1>1, <1>2, FS_Product, Zenon
  <2> QED
    BY <1>2, <2>1
<1>4. Spent \subseteq All
  BY DEF Spent
<1> QED
  BY <1>1, <1>3, <1>4, FS_Subset

\* The same of the next state, which a step's proof needs.
LEMMA TokensAreFinitePrime ==
  ASSUME InputInv', TypeOK'
  PROVE  /\ IsFiniteSet(Spent')
         /\ IsFiniteSet(DOMAIN states')
<1> DEFINE All == (DOMAIN states') \X (Registers \cup {New})
<1>1. IsFiniteSet(DOMAIN states')
  BY BlockAssumption, FS_Subset DEF TypeOK
<1>2. IsFiniteSet(Registers \cup {New})
  BY RegisterAssumption, FS_AddElement
<1>3. IsFiniteSet(All)
  BY <1>1, <1>2, FS_Product, Zenon
<1>4. Spent' \subseteq All
  BY DEF Spent
<1> QED
  BY <1>1, <1>3, <1>4, FS_Subset

\* A set of addresses has a least one.
LEMMA SmallestExists ==
  ASSUME NEW S \in SUBSET Nat, S # {}
  PROVE  \E a \in S : \A b \in S : a <= b
<1>1. PICK m \in S : \A n \in S : ~(<<n, m>> \in OpToRel(<, Nat))
  BY NatLessThanWellFounded, WFMin
<1>2. \A n \in S : ~(n < m)
  BY <1>1 DEF OpToRel
<1> QED
  BY <1>2

-----------------------------------------------------------------------------
(***************************************************************************)
(* The initial states, and the steps that change no state.                 *)
(***************************************************************************)

\* Before the first block is queued.
LEMMA IdleIInv == InputInv /\ Idle => IInv
<1> SUFFICES ASSUME InputInv, Idle PROVE IInv
  OBVIOUS
<1>2. InputInv
  OBVIOUS
<1>3. /\ states = << >> /\ queue = <<>> /\ queued = {} /\ steps = 0 /\ lift = "start"
      /\ address = 0 /\ index = 0 /\ state = Unbound /\ left = {} /\ from = << >> /\ out = << >>
  BY DEF Idle
<1>4. DOMAIN states = {} /\ DOMAIN state = {}
  BY <1>3 DEF Unbound
<1>5. TypeOK
  <2>1. queue \in Seq(DOMAIN states) /\ queued = Elements(queue)
    BY <1>3 DEF Elements
  <2> QED
    BY <1>2, <1>3, <1>4, <2>1 DEF TypeOK, InputInv, IsState
<1>6. IsFcn(state) /\ IsFcn(states)
  <2>1. IsFcn(state)
    BY <1>3 DEF IsFcn, Unbound
  <2>2. states = [i \in 1 .. 0 |-> states[i]]
    BY <1>3
  <2>3. IsFcn(states)
    BY <1>4, <2>2 DEF IsFcn
  <2> QED
    BY <2>1, <2>3
<1>7. FcnInv
  BY <1>3, <1>4, <1>6 DEF FcnInv
<1>8. StartInv /\ MergeInv /\ Stable
  BY <1>3, <1>4 DEF StartInv, MergeInv, Stable
<1>9. BudgetInv
  <2>1. steps + Len(queue) = 0
    BY <1>3
  <2>2. Cardinality(Spent) \in Nat
    BY <1>2, <1>5, TokensAreFinite, FS_CardinalityType
  <2> QED
    BY <2>1, <2>2 DEF BudgetInv
<1> QED
  BY <1>2, <1>5, <1>7, <1>8, <1>9 DEF IInv

LEMMA IdleRuns == Idle => RunInv /\ EntryInv /\ DoneInv /\ ReachedInv
BY DEF Idle, RunInv, EntryInv, DoneInv, ReachedInv

LEMMA InitIInv == Init => IInv
<1> SUFFICES ASSUME Init PROVE IInv
  OBVIOUS
<1>1. PICK f \in Functions : blocks = f.blocks /\ effect = f.effect
  BY DEF Init
<1>2. InputInv
  BY <1>1, BlockAssumption DEF InputInv
<1> QED
  BY <1>2, IdleIInv DEF Init

\* The steps of other parts of the program.
LEMMA StutterPreserves == IInv /\ UNCHANGED vars => IInv'
BY DEF IInv, vars, input, locals, TypeOK, InputInv, FcnInv, StartInv, MergeInv, Stable,
       InProgress, BudgetInv, Spent, Elements

\* Steps to the end, and from one block to the next.
LEMMA LeavePreserves == IInv /\ (NoBlocks \/ WorkListEmpty \/ NextBlock) => IInv'
<1> SUFFICES ASSUME IInv, NoBlocks \/ WorkListEmpty \/ NextBlock PROVE IInv'
  OBVIOUS
<1>1. /\ UNCHANGED <<blocks, effect, states, queue, queued, steps, address, index, state, left, from, out>>
      /\ lift' \in {"pop", "done"}
      /\ lift = "merge" \/ lift' = "done"
      /\ lift = "merge" => left = {}
      /\ lift \in {"start", "pop", "merge"}
  BY DEF NoBlocks, WorkListEmpty, NextBlock, input, locals
<1>2. TypeOK'
  BY <1>1 DEF IInv, TypeOK, Elements, IsState
<1>3. InputInv' /\ FcnInv' /\ StartInv' /\ MergeInv'
  BY <1>1 DEF IInv, InputInv, FcnInv, StartInv, MergeInv, IsFcn
<1>4. Stable'
  <2> SUFFICES ASSUME NEW b \in DOMAIN blocks \cap DOMAIN states, b \notin queued
               PROVE  /\ b \in DOMAIN out
                      /\ from[b] = states[b]
                      /\ \A s \in blocks[b].successors :
                           s \in DOMAIN states /\ Below(states[s], out[b])
    BY <1>1 DEF Stable, InProgress
  <2>1. CASE lift = "merge" /\ b = address
    BY <1>1, <2>1 DEF IInv, MergeInv
  <2>2. CASE ~(lift = "merge" /\ b = address)
    BY <1>1, <2>2 DEF IInv, Stable, InProgress
  <2> QED
    BY <2>1, <2>2
<1>5. BudgetInv'
  BY <1>1 DEF IInv, BudgetInv, Spent
<1> QED
  BY <1>2, <1>3, <1>4, <1>5 DEF IInv

\* The first block is queued with one token spent.
LEMMA BeginPreserves == IInv /\ Begin => IInv'
<1> SUFFICES ASSUME IInv, Begin PROVE IInv'
  OBVIOUS
<1> DEFINE entry == Least(DOMAIN blocks)
<1>1. /\ lift = "start" /\ lift' = "pop"
      /\ DOMAIN blocks # {}
      /\ states' = [a \in {entry} |-> InitialState]
      /\ queue' = <<entry>> /\ queued' = {entry}
      /\ UNCHANGED <<blocks, effect, steps, address, index, state, left, from, out>>
  BY DEF Begin, input, locals
<1>2. entry \in DOMAIN blocks
  <2>1. DOMAIN blocks \subseteq Nat
    BY BlockAssumption DEF IInv, InputInv
  <2>2. \E a \in DOMAIN blocks : \A b \in DOMAIN blocks : a <= b
    <3>1. PICK m \in DOMAIN blocks : TRUE
      BY <1>1
    <3> QED
      BY <2>1, <3>1, SmallestExists
  <2> QED
    BY <2>2 DEF Least
<1> HIDE DEF entry
<1>3. DOMAIN states' = {entry} /\ states'[entry] = InitialState
  BY <1>1
<1>4. IsState(InitialState) /\ IsFcn(InitialState)
  <2>1. DOMAIN InitialState = ArgRegisters /\ \A r \in ArgRegisters : IsExpression(InitialState[r])
    BY NamesAreExpressions, RegisterAssumption DEF InitialState
  <2>2. IsFcn(InitialState)
    BY DEF InitialState, IsFcn
  <2> QED
    BY <2>1, <2>2, RegisterAssumption DEF IsState
<1>5. InputInv' /\ FcnInv' /\ StartInv' /\ MergeInv'
  <2>1. IsFcn(states')
    BY <1>1, <1>3 DEF IsFcn
  <2> QED
    BY <1>1, <1>3, <1>4, <2>1 DEF IInv, InputInv, FcnInv, StartInv, MergeInv, IsFcn
<1>6. TypeOK'
  <2>1. queue' \in Seq(DOMAIN states') /\ queued' = Elements(queue')
    BY <1>1, <1>3 DEF Elements
  <2>2. \A i, j \in 1 .. Len(queue') : queue'[i] = queue'[j] => i = j
    BY <1>1
  <2> QED
    BY <1>1, <1>2, <1>3, <1>4, <2>1, <2>2 DEF IInv, TypeOK, InputInv, IsState
<1>7. Stable'
  BY <1>1, <1>3 DEF Stable
<1>8. BudgetInv'
  <2>1. <<entry, New>> \in Spent'
    <3> DEFINE t == <<entry, New>>
    <3>1. t \in (DOMAIN states') \X (Registers \cup {New}) /\ t[2] = New
      BY <1>3
    <3> HIDE DEF t
    <3>2. t \in Spent'
      BY <3>1 DEF Spent
    <3> QED
      BY <3>2 DEF t
  <2>2. Cardinality(Spent') \in Nat /\ IsFiniteSet(Spent')
    <3>1. InputInv' /\ TypeOK' => IsFiniteSet(Spent')
      BY TokensAreFinitePrime
    <3> QED
      BY <1>5, <1>6, <3>1, FS_CardinalityType
  <2>3. Cardinality(Spent') # 0
    BY <2>1, <2>2, FS_EmptySet
  <2>4. steps' + Len(queue') = 1
    BY <1>1 DEF IInv, StartInv
  <2> QED
    BY <2>2, <2>3, <2>4 DEF BudgetInv
<1> QED
  BY <1>5, <1>6, <1>7, <1>8 DEF IInv

-----------------------------------------------------------------------------
(***************************************************************************)
(* Taking a block from the work list.                                      *)
(***************************************************************************)

\* The address popped is queued no more, as the list holds it once.
LEMMA PopFacts ==
  ASSUME TypeOK, Pop
  PROVE  /\ Head(queue) \in DOMAIN states
         /\ queue' \in Seq(DOMAIN states)
         /\ Len(queue') = Len(queue) - 1
         /\ queued' = Elements(queue')
         /\ Head(queue) \notin queued'
         /\ \A i, j \in 1 .. Len(queue') : queue'[i] = queue'[j] => i = j
         /\ steps' + Len(queue') = steps + Len(queue)
         /\ steps' \in Nat
<1>1. /\ queue \in Seq(DOMAIN states) /\ queue # <<>>
      /\ queue' = Tail(queue) /\ queued' = queued \ {Head(queue)}
      /\ steps' = steps + 1 /\ steps \in Nat
      /\ queued = Elements(queue)
      /\ \A i, j \in 1 .. Len(queue) : queue[i] = queue[j] => i = j
  BY DEF TypeOK, Pop
<1>2. /\ Len(queue) \in Nat \ {0}
      /\ queue' \in Seq(DOMAIN states)
      /\ Len(queue') = Len(queue) - 1
      /\ Head(queue) = queue[1] /\ Head(queue) \in DOMAIN states
      /\ \A i \in 1 .. Len(queue') : queue'[i] = queue[i + 1]
  BY <1>1
<1>3. \A i, j \in 1 .. Len(queue') : queue'[i] = queue'[j] => i = j
  BY <1>1, <1>2
<1>4. queued' = Elements(queue')
  <2>1. ASSUME NEW i \in 1 .. Len(queue) PROVE queue[i] = queue[1] \/ queue[i] \in Elements(queue')
    <3>1. CASE i = 1
      BY <3>1
    <3>2. CASE i # 1
      <4>1. i - 1 \in 1 .. Len(queue') /\ queue'[i - 1] = queue[i]
        BY <1>2, <3>2
      <4> QED
        BY <4>1 DEF Elements
    <3> QED
      BY <3>1, <3>2
  <2>2. ASSUME NEW i \in 1 .. Len(queue') PROVE queue'[i] \in Elements(queue) /\ queue'[i] # queue[1]
    <3>1. i + 1 \in 1 .. Len(queue) /\ 1 \in 1 .. Len(queue) /\ i + 1 # 1
      BY <1>2
    <3> QED
      BY <1>1, <1>2, <3>1 DEF Elements
  <2>3. Elements(queue) \ {queue[1]} \subseteq Elements(queue')
    BY <2>1 DEF Elements
  <2>4. Elements(queue') \subseteq Elements(queue) \ {queue[1]}
    BY <2>2 DEF Elements
  <2> QED
    BY <1>1, <1>2, <2>3, <2>4
<1> QED
  BY <1>1, <1>2, <1>3, <1>4

\* A step that pops and leaves the states as they are.
LEMMA PopPreserves ==
  ASSUME IInv, Pop, UNCHANGED <<blocks, effect, states, from, out, left>>, lift = "pop",
         lift' \in {"pop", "apply", "limit"},
         lift' \in {"pop", "limit"} => UNCHANGED <<address, index, state>>,
         lift' = "pop" => Head(queue) \notin DOMAIN blocks,
         lift' = "apply" => /\ address' = Head(queue) /\ address' \in DOMAIN blocks
                            /\ index' \in Nat \ {0} /\ state' = states[Head(queue)]
  PROVE  IInv'
<1> USE DEF IInv
<1>1. /\ Head(queue) \in DOMAIN states
      /\ queue' \in Seq(DOMAIN states)
      /\ queued' = Elements(queue')
      /\ Head(queue) \notin queued'
      /\ \A i, j \in 1 .. Len(queue') : queue'[i] = queue'[j] => i = j
      /\ steps' + Len(queue') = steps + Len(queue)
      /\ steps' \in Nat
  BY PopFacts
<1>2. queued' = queued \ {Head(queue)}
  BY DEF Pop
<1>3. /\ IsState(state') /\ IsFcn(state')
      /\ \A a \in DOMAIN states : IsState(states[a])
  BY <1>1 DEF TypeOK, FcnInv
<1>4. TypeOK'
  <2>1. queued' = Elements(queue)'
    BY <1>1
  <2> QED
    BY <1>1, <1>3, <2>1 DEF TypeOK
<1>5. InputInv' /\ StartInv' /\ MergeInv'
  BY DEF InputInv, StartInv, MergeInv
<1>6. FcnInv'
  BY <1>3 DEF FcnInv, IsFcn
<1>7. Stable'
  <2> SUFFICES ASSUME lift' # "limit", NEW b \in DOMAIN blocks \cap DOMAIN states,
                      b \notin queued', ~(lift' = "apply" /\ b = address')
               PROVE  /\ b \in DOMAIN out
                      /\ from[b] = states[b]
                      /\ \A s \in blocks[b].successors :
                           s \in DOMAIN states /\ Below(states[s], out[b])
    BY DEF Stable, InProgress
  <2>1. b # Head(queue)
    OBVIOUS
  <2> QED
    BY <1>2, <2>1 DEF Stable, InProgress
<1>8. BudgetInv'
  BY <1>1 DEF BudgetInv, Spent
<1> QED
  BY <1>4, <1>5, <1>6, <1>7, <1>8

\* At MAX_DATAFLOW_STEPS.
LEMMA StopPreserves == IInv /\ StopAtLimit => IInv'
<1> SUFFICES ASSUME IInv, StopAtLimit PROVE IInv'
  OBVIOUS
<1>1. /\ Pop /\ lift = "pop" /\ lift' = "limit"
      /\ UNCHANGED <<blocks, effect, states, from, out, left, address, index, state>>
  BY DEF StopAtLimit, Pop, input, locals
<1> QED
  BY <1>1, PopPreserves

\* An address with no block is dropped from the list.
LEMMA SkipPreserves == IInv /\ SkipMissing => IInv'
<1> SUFFICES ASSUME IInv, SkipMissing PROVE IInv'
  OBVIOUS
<1>1. /\ Pop /\ lift = "pop" /\ lift' = "pop" /\ Head(queue) \notin DOMAIN blocks
      /\ UNCHANGED <<blocks, effect, states, from, out, left, address, index, state>>
  BY DEF SkipMissing, Pop, input, locals
<1> QED
  BY <1>1, PopPreserves

\* The block popped is now in progress.
LEMMA RunPreserves == IInv /\ RunBlock => IInv'
<1> SUFFICES ASSUME IInv, RunBlock PROVE IInv'
  OBVIOUS
<1>1. /\ Pop /\ lift = "pop" /\ lift' = "apply"
      /\ address' = Head(queue) /\ address' \in DOMAIN blocks
      /\ index' \in Nat \ {0} /\ state' = states[Head(queue)]
      /\ UNCHANGED <<blocks, effect, states, from, out, left>>
  BY DEF RunBlock, Pop, input
<1> QED
  BY <1>1, PopPreserves

-----------------------------------------------------------------------------
(***************************************************************************)
(* Running a block.                                                        *)
(***************************************************************************)

\* The locals change, the tables do not.
LEMMA ApplyPreserves == IInv /\ ApplyInstruction => IInv'
<1> SUFFICES ASSUME IInv, ApplyInstruction PROVE IInv'
  OBVIOUS
<1> DEFINE i == effect[blocks[address].instructions[index]]
<1>1. /\ lift = "apply" /\ lift' = "apply"
      /\ index <= Len(blocks[address].instructions)
      /\ state' = Apply(state, i)
      /\ index' = index + 1
      /\ UNCHANGED <<blocks, effect, states, queue, queued, steps, address, left, from, out>>
  BY DEF ApplyInstruction, input
<1>2. address \in DOMAIN blocks /\ index \in Nat \ {0} /\ IsState(state) /\ IsFcn(state)
  BY <1>1 DEF IInv, TypeOK, FcnInv
<1>3. i \in Effects
  <2>1. blocks[address].instructions \in Seq(DOMAIN effect)
    BY <1>2 DEF IInv, InputInv
  <2>2. blocks[address].instructions[index] \in DOMAIN effect
    BY <1>1, <1>2, <2>1
  <2> QED
    BY <2>2 DEF IInv, InputInv
<1>4. IsState(state') /\ IsFcn(state')
  BY <1>1, <1>2, <1>3, ApplyIsState
<1>5. TypeOK'
  BY <1>1, <1>4 DEF IInv, TypeOK, Elements
<1>6. InputInv' /\ FcnInv' /\ StartInv' /\ MergeInv'
  BY <1>1, <1>4 DEF IInv, InputInv, FcnInv, StartInv, MergeInv, IsFcn
<1>7. Stable' /\ BudgetInv'
  BY <1>1 DEF IInv, Stable, InProgress, BudgetInv, Spent
<1> QED
  BY <1>5, <1>6, <1>7 DEF IInv

\* The run is remembered: its block had the state it was run from, or is queued.
LEMMA EndPreserves == IInv /\ EndOfBlock => IInv'
<1> SUFFICES ASSUME IInv, EndOfBlock PROVE IInv'
  OBVIOUS
<1>1. /\ lift = "apply" /\ lift' = "merge"
      /\ left' = blocks[address].successors
      /\ DOMAIN from' = DOMAIN from \cup {address}
      /\ from'[address] = states[address]
      /\ \A b \in DOMAIN from \ {address} : from'[b] = from[b]
      /\ DOMAIN out' = DOMAIN out \cup {address}
      /\ out'[address] = state
      /\ \A b \in DOMAIN out \ {address} : out'[b] = out[b]
      /\ UNCHANGED <<blocks, effect, states, queue, queued, steps, address, index, state>>
  BY DEF EndOfBlock, input
<1>2. address \in DOMAIN blocks
  BY <1>1 DEF IInv, TypeOK
<1>3. TypeOK'
  <2>1. left' \subseteq Addresses
    BY <1>1, <1>2 DEF IInv, InputInv
  <2> QED
    BY <1>1, <2>1 DEF IInv, TypeOK, Elements, IsState
<1>4. InputInv' /\ FcnInv' /\ StartInv' /\ MergeInv'
  BY <1>1 DEF IInv, InputInv, FcnInv, StartInv, MergeInv, IsFcn
<1>5. Stable'
  <2> SUFFICES ASSUME NEW b \in DOMAIN blocks \cap DOMAIN states, b \notin queued, b # address
               PROVE  /\ b \in DOMAIN out'
                      /\ from'[b] = states[b]
                      /\ \A s \in blocks[b].successors :
                           s \in DOMAIN states /\ Below(states[s], out'[b])
    BY <1>1 DEF Stable, InProgress
  <2>1. /\ b \in DOMAIN out
        /\ from[b] = states[b]
        /\ \A s \in blocks[b].successors :
             s \in DOMAIN states /\ Below(states[s], out[b])
    BY <1>1 DEF IInv, Stable, InProgress
  <2>2. out'[b] = out[b]
    BY <1>1, <2>1
  <2>3. from'[b] = from[b]
    <3>1. b \in DOMAIN from
      BY <2>1 DEF IInv, FcnInv
    <3> QED
      BY <1>1, <3>1
  <2> QED
    BY <1>1, <2>1, <2>2, <2>3
<1>6. BudgetInv'
  BY <1>1 DEF IInv, BudgetInv, Spent
<1> QED
  BY <1>3, <1>4, <1>5, <1>6 DEF IInv

-----------------------------------------------------------------------------
(***************************************************************************)
(* Merging a state into one successor.                                     *)
(***************************************************************************)

\* What one merge does to the tables: it gives the successor a state below the
\* incoming one, weakens no other, and queues the successor if that is news.
LEMMA MergeFacts ==
  ASSUME IInv, MergeSuccessor
  PROVE  \E s \in left :
           /\ s \in Addresses
           /\ DOMAIN states' = DOMAIN states \cup {s}
           /\ \A a \in DOMAIN states \ {s} : states'[a] = states[a]
           /\ IsFcn(states')
           /\ IsState(states'[s]) /\ IsFcn(states'[s])
           /\ Below(states'[s], state)
           /\ s \in DOMAIN states => /\ states'[s] = Meet(states[s], state)
                                     /\ Below(states'[s], states[s])
           /\ Changed(s) <=> (s \in DOMAIN states => states'[s] # states[s])
           /\ queue' = IF Changed(s) /\ s \notin queued THEN Append(queue, s) ELSE queue
           /\ queued' = IF Changed(s) THEN queued \cup {s} ELSE queued
           /\ left' = left \ {s}
<1> DEFINE s == Least(left)
<1>1. s \in left
  <2>1. left \subseteq Nat /\ left # {}
    BY BlockAssumption DEF IInv, TypeOK, MergeSuccessor
  <2>2. \E a \in left : \A b \in left : a <= b
    BY <2>1, SmallestExists
  <2> QED
    BY <2>2 DEF Least
<1>2. /\ states' = [a \in DOMAIN states \cup {s} |-> IF a = s THEN Merged(s) ELSE states[a]]
      /\ queue' = IF Changed(s) /\ s \notin queued THEN Append(queue, s) ELSE queue
      /\ queued' = IF Changed(s) THEN queued \cup {s} ELSE queued
      /\ left' = left \ {s}
  BY DEF MergeSuccessor
<1> HIDE DEF s
<1>3. /\ DOMAIN states' = DOMAIN states \cup {s}
      /\ states'[s] = Merged(s)
      /\ \A a \in DOMAIN states \ {s} : states'[a] = states[a]
  BY <1>2
<1>4. IsFcn(states')
  BY <1>2 DEF IsFcn
<1>5. IsState(state) /\ IsFcn(state) /\ left \subseteq Addresses
  BY DEF IInv, TypeOK, FcnInv
<1>6. CASE s \in DOMAIN states
  <2>1. IsState(states[s])
    BY <1>6 DEF IInv, TypeOK
  <2>2. Merged(s) = Meet(states[s], state)
    BY <1>6 DEF Merged
  <2>3. IsState(Merged(s)) /\ IsFcn(Merged(s)) /\ Below(Merged(s), states[s]) /\ Below(Merged(s), state)
    BY <2>1, <2>2, MeetIsState, MeetIsBelow
  <2>4. Changed(s) <=> states'[s] # states[s]
    BY <1>3, <1>6 DEF Changed
  <2> QED
    BY <1>1, <1>2, <1>3, <1>4, <1>5, <1>6, <2>2, <2>3, <2>4
<1>7. CASE s \notin DOMAIN states
  <2>1. Merged(s) = state /\ Changed(s)
    BY <1>7 DEF Merged, Changed
  <2>2. Below(state, state)
    BY DEF Below
  <2> QED
    BY <1>1, <1>2, <1>3, <1>4, <1>5, <1>7, <2>1, <2>2
<1> QED
  BY <1>6, <1>7

\* No merge takes a token back, and one that queues an address spends one.
LEMMA MergeSpends ==
  ASSUME IInv, IsFiniteSet(Spent'), Cardinality(Spent) \in Nat,
         NEW s, NEW t,
         DOMAIN states' = DOMAIN states \cup {s},
         \A a \in DOMAIN states \ {s} : states'[a] = states[a],
         s \in DOMAIN states => states'[s] = Meet(states[s], t) /\ Below(states'[s], states[s])
  PROVE  /\ Cardinality(Spent') \in Nat
         /\ Cardinality(Spent) <= Cardinality(Spent')
         /\ (s \in DOMAIN states => states'[s] # states[s])
              => Cardinality(Spent) < Cardinality(Spent')
<1>1. Spent \subseteq Spent'
  <2> SUFFICES ASSUME NEW k \in Spent PROVE k \in Spent'
    OBVIOUS
  <2>1. /\ k \in (DOMAIN states) \X (Registers \cup {New})
        /\ k[2] = New \/ k[2] \notin DOMAIN states[k[1]]
    BY DEF Spent
  <2>2. k \in (DOMAIN states') \X (Registers \cup {New}) /\ k[1] \in DOMAIN states
    BY <2>1
  <2>3. DOMAIN states'[k[1]] \subseteq DOMAIN states[k[1]]
    BY <2>2 DEF Below
  <2> QED
    BY <2>1, <2>2, <2>3 DEF Spent
<1>2. ASSUME s \in DOMAIN states => states'[s] # states[s]
      PROVE  \E k \in Spent' : k \notin Spent
  <2>1. CASE s \notin DOMAIN states
    <3> DEFINE k == <<s, New>>
    <3>1. k \in (DOMAIN states') \X (Registers \cup {New}) /\ k[2] = New /\ k[1] = s
      OBVIOUS
    <3>2. k \notin (DOMAIN states) \X (Registers \cup {New})
      BY <2>1
    <3> HIDE DEF k
    <3>3. k \in Spent'
      BY <3>1 DEF Spent
    <3>4. k \notin Spent
      BY <3>2 DEF Spent
    <3> QED
      BY <3>3, <3>4
  <2>2. CASE s \in DOMAIN states
    <3>1. IsFcn(states[s]) /\ IsState(states[s])
      BY <2>2 DEF IInv, FcnInv, TypeOK
    <3>2. PICK r \in DOMAIN states[s] : r \notin DOMAIN states'[s]
      BY <1>2, <2>2, <3>1, ChangeUnbinds
    <3>3. r \in Registers /\ r # New
      BY <3>1, NewIsNoRegister DEF IsState
    <3> DEFINE k == <<s, r>>
    <3>4. k \in (DOMAIN states') \X (Registers \cup {New}) /\ k[1] = s /\ k[2] = r
      BY <3>3
    <3> HIDE DEF k
    <3>5. k \in Spent'
      BY <3>2, <3>4 DEF Spent
    <3>6. k \notin Spent
      BY <3>2, <3>3, <3>4 DEF Spent
    <3> QED
      BY <3>5, <3>6
  <2> QED
    BY <2>1, <2>2
<1>3. Cardinality(Spent') \in Nat /\ Cardinality(Spent) <= Cardinality(Spent')
  BY <1>1, FS_Subset, FS_CardinalityType
<1>4. ASSUME s \in DOMAIN states => states'[s] # states[s]
      PROVE  Cardinality(Spent) < Cardinality(Spent')
  <2>1. Spent # Spent'
    BY <1>2, <1>4
  <2>2. Cardinality(Spent) # Cardinality(Spent')
    BY <1>1, <2>1, FS_Subset
  <2> QED
    BY <1>3, <2>2
<1> QED
  BY <1>3, <1>4

\* The merge that queues its successor has spent a token of it.
LEMMA MergePreserves == IInv /\ MergeSuccessor => IInv'
<1> SUFFICES ASSUME IInv, MergeSuccessor PROVE IInv'
  OBVIOUS
<1>1. PICK s \in left :
        /\ s \in Addresses
        /\ DOMAIN states' = DOMAIN states \cup {s}
        /\ \A a \in DOMAIN states \ {s} : states'[a] = states[a]
        /\ IsFcn(states')
        /\ IsState(states'[s]) /\ IsFcn(states'[s])
        /\ Below(states'[s], state)
        /\ s \in DOMAIN states => /\ states'[s] = Meet(states[s], state)
                                  /\ Below(states'[s], states[s])
        /\ Changed(s) <=> (s \in DOMAIN states => states'[s] # states[s])
        /\ queue' = IF Changed(s) /\ s \notin queued THEN Append(queue, s) ELSE queue
        /\ queued' = IF Changed(s) THEN queued \cup {s} ELSE queued
        /\ left' = left \ {s}
  BY MergeFacts
<1>2. /\ lift = "merge" /\ lift' = "merge"
      /\ UNCHANGED <<blocks, effect, steps, address, index, state, from, out>>
  BY DEF MergeSuccessor, input
<1>3. \A a \in DOMAIN states : a \in DOMAIN states' /\ Below(states'[a], states[a])
  BY <1>1 DEF Below
<1>4. \A a \in DOMAIN states' : a \notin queued' =>
        a \in DOMAIN states /\ a \notin queued /\ states'[a] = states[a]
  BY <1>1
<1>5. InputInv' /\ StartInv'
  BY <1>2 DEF IInv, InputInv, StartInv
<1>6. FcnInv'
  <2>1. \A a \in DOMAIN states' : IsFcn(states'[a])
    BY <1>1 DEF IInv, FcnInv
  <2> QED
    BY <1>1, <1>2, <2>1 DEF IInv, FcnInv, IsFcn
<1>7. TypeOK'
  <2>1. /\ queue \in Seq(DOMAIN states) /\ queued = Elements(queue)
        /\ \A i, j \in 1 .. Len(queue) : queue[i] = queue[j] => i = j
    BY DEF IInv, TypeOK
  <2>2. queue \in Seq(DOMAIN states')
    BY <1>1, <2>1
  <2>3. /\ queue' \in Seq(DOMAIN states')
        /\ queued' = Elements(queue')
        /\ \A i, j \in 1 .. Len(queue') : queue'[i] = queue'[j] => i = j
    <3>1. CASE Changed(s) /\ s \notin queued
      <4>1. queue' = Append(queue, s) /\ queued' = queued \cup {s}
        BY <1>1, <3>1
      <4>2. /\ queue' \in Seq(DOMAIN states')
            /\ Len(queue') = Len(queue) + 1 /\ Len(queue) \in Nat
            /\ queue'[Len(queue) + 1] = s
            /\ \A i \in 1 .. Len(queue) : queue'[i] = queue[i]
        BY <1>1, <2>2, <4>1
      <4>3. \A i \in 1 .. Len(queue) : queue[i] # s
        BY <2>1, <3>1 DEF Elements
      <4>4. \A i \in 1 .. Len(queue') : i = Len(queue) + 1 \/ i \in 1 .. Len(queue)
        BY <4>2
      <4>5. \A i, j \in 1 .. Len(queue') : queue'[i] = queue'[j] => i = j
        BY <2>1, <4>2, <4>3, <4>4
      <4>6. queued' = Elements(queue')
        <5>1. Elements(queue') \subseteq Elements(queue) \cup {s}
          BY <4>2, <4>4 DEF Elements
        <5>2. s \in Elements(queue')
          <6>1. Len(queue) + 1 \in 1 .. Len(queue')
            BY <4>2
          <6> QED
            BY <4>2, <6>1 DEF Elements
        <5>3. Elements(queue) \subseteq Elements(queue')
          <6>1. \A i \in 1 .. Len(queue) : i \in 1 .. Len(queue')
            BY <4>2
          <6> QED
            BY <4>2, <6>1 DEF Elements
        <5> QED
          BY <2>1, <4>1, <5>1, <5>2, <5>3
      <4> QED
        BY <4>2, <4>5, <4>6
    <3>2. CASE ~(Changed(s) /\ s \notin queued)
      <4>1. queue' = queue /\ queued' = queued
        BY <1>1, <3>2
      <4> QED
        BY <2>1, <2>2, <4>1
    <3> QED
      BY <3>1, <3>2
  <2>4. \A a \in DOMAIN states' : IsState(states'[a])
    BY <1>1 DEF IInv, TypeOK
  <2>5. queued' = Elements(queue)'
    BY <2>3
  <2> QED
    BY <1>1, <1>2, <2>3, <2>4, <2>5 DEF IInv, TypeOK, IsState
<1>8. MergeInv'
  <2>1. \A t \in blocks[address].successors \ left' :
          t \in DOMAIN states' /\ Below(states'[t], state)
    <3> SUFFICES ASSUME NEW t \in blocks[address].successors \ left'
                 PROVE  t \in DOMAIN states' /\ Below(states'[t], state)
      OBVIOUS
    <3>1. CASE t = s
      BY <1>1, <3>1
    <3>2. CASE t # s
      <4>1. t \in DOMAIN states /\ Below(states[t], state)
        BY <1>1, <1>2, <3>2 DEF IInv, MergeInv
      <4> QED
        BY <1>3, <4>1, BelowTransitive
    <3> QED
      BY <3>1, <3>2
  <2>2. address \in DOMAIN states
    BY <1>2 DEF IInv, TypeOK
  <2>3. address \notin queued' => from[address] = states'[address]
    BY <1>1, <1>2, <1>4, <2>2 DEF IInv, MergeInv
  <2> QED
    BY <1>1, <1>2, <2>1, <2>3 DEF IInv, MergeInv
<1>9. Stable'
  <2> SUFFICES ASSUME NEW b \in DOMAIN blocks \cap DOMAIN states', b \notin queued', b # address
               PROVE  /\ b \in DOMAIN out
                      /\ from[b] = states'[b]
                      /\ \A t \in blocks[b].successors :
                           t \in DOMAIN states' /\ Below(states'[t], out[b])
    BY <1>2 DEF Stable, InProgress
  <2>1. b \in DOMAIN states /\ b \notin queued /\ states'[b] = states[b]
    BY <1>4
  <2>2. /\ b \in DOMAIN out
        /\ from[b] = states[b]
        /\ \A t \in blocks[b].successors : t \in DOMAIN states /\ Below(states[t], out[b])
    BY <1>2, <2>1 DEF IInv, Stable, InProgress
  <2>3. \A t \in blocks[b].successors : t \in DOMAIN states' /\ Below(states'[t], out[b])
    BY <1>3, <2>2, BelowTransitive
  <2> QED
    BY <2>1, <2>2, <2>3
<1>10. BudgetInv'
  <2>1. IsFiniteSet(Spent')
    <3>1. InputInv' /\ TypeOK' => IsFiniteSet(Spent')
      BY TokensAreFinitePrime
    <3> QED
      BY <1>5, <1>7, <3>1
  <2>2. Cardinality(Spent) \in Nat
    BY TokensAreFinite, FS_CardinalityType DEF IInv
  <2>3. /\ Cardinality(Spent') \in Nat
        /\ Cardinality(Spent) <= Cardinality(Spent')
        /\ Changed(s) => Cardinality(Spent) < Cardinality(Spent')
    BY <1>1, <2>1, <2>2, MergeSpends
  <2>4. /\ Len(queue) \in Nat /\ steps \in Nat
        /\ queue' = queue \/ (Changed(s) /\ Len(queue') = Len(queue) + 1)
    BY <1>1 DEF IInv, TypeOK
  <2> QED
    BY <1>2, <2>2, <2>3, <2>4 DEF IInv, BudgetInv
<1> QED
  BY <1>5, <1>6, <1>7, <1>8, <1>9, <1>10 DEF IInv

-----------------------------------------------------------------------------
(***************************************************************************)
(* Runs of a block.                                                        *)
(***************************************************************************)
Runs(b, s, n, f) ==
  f = [k \in 1 .. n |->
         IF k = 1 THEN s ELSE Apply(f[k - 1], effect[blocks[b].instructions[k - 1]])]

LEMMA RunsDefined ==
  ASSUME NEW b, NEW s, NEW m \in Nat
  PROVE  \E f : Runs(b, s, m, f)
<1> DEFINE Bad == {n \in Nat : ~\E f : Runs(b, s, n, f)}
<1>1. ASSUME Bad # {} PROVE FALSE
  <2>1. PICK n \in Bad : \A k \in Bad : n <= k
    BY <1>1, SmallestExists
  <2>2. CASE n = 0
    <3> DEFINE f == [k \in 1 .. 0 |-> s]
    <3>1. f = [k \in 1 .. 0 |->
                 IF k = 1 THEN s ELSE Apply(f[k - 1], effect[blocks[b].instructions[k - 1]])]
      OBVIOUS
    <3> QED
      BY <2>1, <2>2, <3>1 DEF Runs
  <2>3. CASE n # 0
    <3>1. n - 1 \in Nat /\ n - 1 \notin Bad
      BY <2>1, <2>3
    <3>2. PICK f : Runs(b, s, n - 1, f)
      BY <3>1
    <3> DEFINE next == [k \in 1 .. n |->
                          IF k # n THEN f[k]
                          ELSE IF n = 1 THEN s
                          ELSE Apply(f[n - 1], effect[blocks[b].instructions[n - 1]])]
    <3>3. ASSUME NEW k \in 1 .. n
          PROVE  next[k] = IF k = 1 THEN s
                           ELSE Apply(next[k - 1], effect[blocks[b].instructions[k - 1]])
      <4>1. CASE k = n
        BY <2>3, <4>1
      <4>2. CASE k # n
        <5>1. k \in 1 .. (n - 1) /\ next[k] = f[k]
          BY <4>2
        <5>2. f[k] = IF k = 1 THEN s
                     ELSE Apply(f[k - 1], effect[blocks[b].instructions[k - 1]])
          BY <3>2, <5>1 DEF Runs
        <5>3. k # 1 => next[k - 1] = f[k - 1]
          BY <5>1
        <5> QED
          BY <5>1, <5>2, <5>3
      <4> QED
        BY <4>1, <4>2
    <3>4. Runs(b, s, n, next)
      BY <3>3 DEF Runs
    <3> QED
      BY <2>1, <3>4
  <2> QED
    BY <2>2, <2>3
<1> QED
  BY <1>1

\* A run and a longer one are the same as far as both go.
LEMMA RunsAgree ==
  ASSUME NEW b, NEW s, NEW n \in Nat, NEW m \in Nat, n <= m,
         NEW f, Runs(b, s, n, f), NEW g, Runs(b, s, m, g)
  PROVE  \A k \in 1 .. n : f[k] = g[k]
<1> DEFINE Bad == {k \in 1 .. n : f[k] # g[k]}
<1>1. ASSUME Bad # {} PROVE FALSE
  <2>1. PICK k \in Bad : \A j \in Bad : k <= j
    <3>1. Bad \in SUBSET Nat
      OBVIOUS
    <3> QED
      BY <1>1, <3>1, SmallestExists
  <2>2. /\ f[k] = IF k = 1 THEN s ELSE Apply(f[k - 1], effect[blocks[b].instructions[k - 1]])
        /\ g[k] = IF k = 1 THEN s ELSE Apply(g[k - 1], effect[blocks[b].instructions[k - 1]])
    BY <2>1 DEF Runs
  <2>3. k # 1 => k - 1 \in 1 .. n /\ k - 1 \notin Bad
    BY <2>1
  <2> QED
    BY <2>1, <2>2, <2>3
<1> QED
  BY <1>1

LEMMA RunToIsRun ==
  ASSUME NEW b, NEW s, NEW n \in Nat
  PROVE  \E f : Runs(b, s, n, f) /\ RunTo(b, s, n) = f[n]
<1> DEFINE Way(f) == f = [k \in 1 .. n |->
             IF k = 1 THEN s ELSE Apply(f[k - 1], effect[blocks[b].instructions[k - 1]])]
           at == CHOOSE f : Way(f)
<1>1. RunTo(b, s, n) = at[n]
  BY DEF RunTo
<1>2. \E f : Way(f)
  <2>1. PICK f : Runs(b, s, n, f)
    BY RunsDefined
  <2>2. Way(f)
    BY <2>1 DEF Runs
  <2> QED
    BY <2>2
<1>3. Way(at)
  BY <1>2
<1> QED
  BY <1>1, <1>3 DEF Runs

\* Before its first instruction a block has the state it is run from, and after each
\* instruction what apply_state makes of the state before it.
LEMMA RunToFirst ==
  ASSUME NEW b, NEW s
  PROVE  RunTo(b, s, 1) = s
<1>1. PICK f : Runs(b, s, 1, f) /\ RunTo(b, s, 1) = f[1]
  BY RunToIsRun
<1> QED
  BY <1>1 DEF Runs

LEMMA RunToNext ==
  ASSUME NEW b, NEW s, NEW n \in Nat \ {0}
  PROVE  RunTo(b, s, n + 1) = Apply(RunTo(b, s, n), effect[blocks[b].instructions[n]])
<1>1. PICK f : Runs(b, s, n, f) /\ RunTo(b, s, n) = f[n]
  BY RunToIsRun
<1>2. PICK g : Runs(b, s, n + 1, g) /\ RunTo(b, s, n + 1) = g[n + 1]
  BY RunToIsRun
<1>3. g[n + 1] = Apply(g[n], effect[blocks[b].instructions[n]])
  <2>1. n + 1 \in 1 .. n + 1 /\ n + 1 # 1 /\ (n + 1) - 1 = n
    OBVIOUS
  <2>2. \A k \in 1 .. n + 1 :
          g[k] = IF k = 1 THEN s ELSE Apply(g[k - 1], effect[blocks[b].instructions[k - 1]])
    BY <1>2 DEF Runs
  <2> QED
    BY <2>1, <2>2
<1>4. g[n] = f[n]
  <2>1. n \in 1 .. n /\ n <= n + 1 /\ n + 1 \in Nat
    OBVIOUS
  <2> QED
    BY <1>1, <1>2, <2>1, RunsAgree
<1> QED
  BY <1>1, <1>2, <1>3, <1>4

LEMMA RunToKept ==
  ASSUME UNCHANGED <<blocks, effect>>
  PROVE  \A b, s, n : RunTo(b, s, n)' = RunTo(b, s, n)
BY DEF RunTo

\* The least of the blocks is one of them.
LEMMA EntryExists ==
  ASSUME InputInv, DOMAIN blocks # {}
  PROVE  Least(DOMAIN blocks) \in DOMAIN blocks
<1>1. DOMAIN blocks \in SUBSET Nat
  BY BlockAssumption DEF InputInv
<1>2. \E a \in DOMAIN blocks : \A b \in DOMAIN blocks : a <= b
  BY <1>1, SmallestExists
<1> QED
  BY <1>2 DEF Least

\* Each result is that of a run over the instructions of its block.
LEMMA RunsKept == IInv /\ RunInv /\ [Next]_vars => RunInv'
<1> SUFFICES ASSUME IInv, RunInv, [Next]_vars PROVE RunInv'
  OBVIOUS
<1>1. UNCHANGED <<blocks, effect>>
  BY DEF Next, vars, input, Begin, NoBlocks, WorkListEmpty, StopAtLimit, SkipMissing, RunBlock,
         ApplyInstruction, EndOfBlock, MergeSuccessor, NextBlock
<1>2. \A b, s, n : RunTo(b, s, n)' = RunTo(b, s, n)
  BY <1>1, RunToKept
<1>3. \A b \in DOMAIN blocks : Len(blocks[b].instructions) \in Nat
  BY DEF IInv, InputInv
<1>4. CASE ApplyInstruction
  <2>1. /\ lift = "apply" /\ lift' = "apply"
        /\ index <= Len(blocks[address].instructions)
        /\ state' = Apply(state, effect[blocks[address].instructions[index]])
        /\ index' = index + 1
        /\ UNCHANGED <<states, address, from, out>>
    BY <1>4 DEF ApplyInstruction
  <2>2. /\ index \in Nat \ {0} /\ address \in DOMAIN blocks
        /\ state = RunTo(address, states[address], index)
    BY <2>1 DEF IInv, TypeOK, RunInv
  <2>3. RunTo(address, states[address], index + 1)
          = Apply(RunTo(address, states[address], index), effect[blocks[address].instructions[index]])
    BY <2>2, RunToNext
  <2>4. index' \in 1 .. Len(blocks[address].instructions) + 1
    BY <1>3, <2>1, <2>2
  <2>5. state' = RunTo(address, states[address], index)'
    BY <1>2, <2>1, <2>2, <2>3
  <2> QED
    BY <1>1, <1>2, <2>1, <2>4, <2>5 DEF RunInv
<1>5. CASE EndOfBlock
  <2>1. /\ lift = "apply" /\ lift' = "merge"
        /\ index > Len(blocks[address].instructions)
        /\ from' = [b \in DOMAIN from \cup {address} |->
                      IF b = address THEN states[address] ELSE from[b]]
        /\ out' = [b \in DOMAIN out \cup {address} |-> IF b = address THEN state ELSE out[b]]
    BY <1>5 DEF EndOfBlock
  <2>2. /\ address \in DOMAIN blocks
        /\ index = Len(blocks[address].instructions) + 1
        /\ state = RunTo(address, states[address], index)
    BY <1>3, <2>1 DEF IInv, TypeOK, RunInv
  <2>3. DOMAIN from = DOMAIN out
    BY DEF IInv, FcnInv
  <2>4. ASSUME NEW b \in DOMAIN out'
        PROVE  b \in DOMAIN blocks /\ out'[b] = RunTo(b, from'[b], Len(blocks[b].instructions) + 1)
    <3>1. CASE b = address
      BY <2>1, <2>2, <3>1
    <3>2. CASE b # address
      <4>1. b \in DOMAIN out /\ out'[b] = out[b] /\ from'[b] = from[b]
        BY <2>1, <2>3, <3>2
      <4> QED
        BY <4>1 DEF RunInv
    <3> QED
      BY <3>1, <3>2
  <2> QED
    BY <1>1, <1>2, <2>1, <2>4 DEF RunInv
<1>6. CASE RunBlock
  <2>1. /\ address' = Head(queue) /\ index' = 1 /\ state' = states[Head(queue)]
        /\ Head(queue) \in DOMAIN blocks
        /\ UNCHANGED <<states, from, out>>
    BY <1>6 DEF RunBlock
  <2>2. index' \in 1 .. Len(blocks[Head(queue)].instructions) + 1
    BY <1>3, <2>1
  <2>3. state' = RunTo(address', states'[address'], index')
    BY <2>1, RunToFirst
  <2> QED
    BY <1>1, <1>2, <2>1, <2>2, <2>3 DEF RunInv
<1>7. CASE ~(ApplyInstruction \/ EndOfBlock \/ RunBlock)
  <2>1. /\ UNCHANGED <<from, out>>
        /\ lift' = "apply" => lift = "apply" /\ UNCHANGED <<address, index, state, states>>
    BY <1>7 DEF Next, vars, locals, Begin, NoBlocks, WorkListEmpty, StopAtLimit, SkipMissing, Pop,
                MergeSuccessor, NextBlock
  <2> QED
    BY <1>1, <1>2, <2>1 DEF RunInv
<1> QED
  BY <1>4, <1>5, <1>6, <1>7

\* Merging only takes from the state of the first block.
LEMMA EntryKept == IInv /\ EntryInv /\ [Next]_vars => EntryInv'
<1> SUFFICES ASSUME IInv, EntryInv, [Next]_vars PROVE EntryInv'
  OBVIOUS
<1>1. CASE Begin
  <2>1. states' = [a \in {Least(DOMAIN blocks)} |-> InitialState] /\ UNCHANGED blocks
    BY <1>1 DEF Begin, input
  <2> QED
    BY <2>1 DEF EntryInv, Below
<1>2. CASE MergeSuccessor
  <2>1. lift = "merge" /\ UNCHANGED blocks
    BY <1>2 DEF MergeSuccessor, input
  <2>2. \A a \in DOMAIN states : a \in DOMAIN states' /\ Below(states'[a], states[a])
    BY <1>2, MergeFacts DEF Below
  <2> QED
    BY <2>1, <2>2, BelowTransitive DEF EntryInv
<1>3. CASE ~(Begin \/ MergeSuccessor)
  <2>1. UNCHANGED <<blocks, states>> /\ (lift = "start" => lift' = "start" \/ DOMAIN blocks = {})
    BY <1>3 DEF Next, vars, input, Pop, NoBlocks, WorkListEmpty, StopAtLimit, SkipMissing, RunBlock,
                ApplyInstruction, EndOfBlock, NextBlock
  <2> QED
    BY <2>1 DEF EntryInv
<1> QED
  BY <1>1, <1>2, <1>3

\* The analysis ends with nothing left to run.
LEMMA DoneKept == IInv /\ DoneInv /\ [Next]_vars => DoneInv'
BY DEF IInv, StartInv, DoneInv, Next, vars, Pop, Begin, NoBlocks, WorkListEmpty, StopAtLimit,
       SkipMissing, RunBlock, ApplyInstruction, EndOfBlock, MergeSuccessor, NextBlock

LEMMA ReachedKept == IInv /\ ReachedInv /\ [Next]_vars => ReachedInv'
<1> SUFFICES ASSUME IInv, ReachedInv, [Next]_vars PROVE ReachedInv'
  OBVIOUS
<1>1. CASE Begin
  <2>1. states' = [a \in {Least(DOMAIN blocks)} |-> InitialState] /\ UNCHANGED blocks
    BY <1>1 DEF Begin, input
  <2>2. Least(DOMAIN blocks) \in DOMAIN blocks
    BY <1>1, EntryExists DEF Begin, IInv
  <2> QED
    BY <2>1, <2>2 DEF ReachedInv
<1>2. CASE MergeSuccessor
  <2>1. lift = "merge" /\ UNCHANGED blocks
    BY <1>2 DEF MergeSuccessor, input
  <2>2. PICK s \in left : DOMAIN states' = DOMAIN states \cup {s}
    BY <1>2, MergeFacts
  <2>3. s \in blocks[address].successors /\ address \in DOMAIN blocks
    BY <2>1, <2>2 DEF IInv, TypeOK, MergeInv
  <2> QED
    BY <2>1, <2>2, <2>3 DEF ReachedInv
<1>3. CASE ~(Begin \/ MergeSuccessor)
  <2>1. UNCHANGED <<blocks, states>>
    BY <1>3 DEF Next, vars, input, Pop, NoBlocks, WorkListEmpty, StopAtLimit, SkipMissing, RunBlock,
                ApplyInstruction, EndOfBlock, NextBlock
  <2> QED
    BY <2>1 DEF ReachedInv
<1> QED
  BY <1>1, <1>2, <1>3

\* The limit is not reached while it leaves a step for every token.
LEMMA StepsSuffice ==
  ASSUME IInv, [Next]_vars, lift # "limit",
         Cardinality(DOMAIN states) * (Cardinality(Registers) + 1) <= MaxSteps
  PROVE  lift' # "limit"
<1> SUFFICES ASSUME StopAtLimit PROVE FALSE
  BY DEF Next, vars, Begin, NoBlocks, WorkListEmpty, SkipMissing, RunBlock, ApplyInstruction,
         EndOfBlock, MergeSuccessor, NextBlock
<1>1. steps + 1 > MaxSteps /\ queue # <<>> /\ steps \in Nat /\ queue \in Seq(DOMAIN states)
  BY DEF IInv, TypeOK, StopAtLimit, Pop
<1>2. Len(queue) \in Nat \ {0}
  BY <1>1
<1> DEFINE all == Cardinality(DOMAIN states) * (Cardinality(Registers) + 1)
<1>3. Cardinality(Spent) \in Nat /\ Cardinality(Spent) <= all
  BY TokensAreFinite, FS_CardinalityType DEF IInv
<1>4. all \in Nat /\ all <= MaxSteps
  BY TokensAreFinite, RegisterAssumption, FS_CardinalityType DEF IInv
<1> HIDE DEF all
<1>5. steps + Len(queue) <= Cardinality(Spent)
  BY DEF IInv, BudgetInv
<1> QED
  BY <1>1, <1>2, <1>3, <1>4, <1>5, BoundAssumption

-----------------------------------------------------------------------------
(***************************************************************************)
(* What expressions say.                                                   *)
(***************************************************************************)
LEMMA Division ==
  ASSUME NEW x \in Int, NEW m \in Nat \ {0}
  PROVE  x = m * (x \div m) + (x % m) /\ x % m \in 0 .. m - 1 /\ x \div m \in Int
OBVIOUS

LEMMA OneRemainder ==
  ASSUME NEW m \in Nat \ {0}, NEW a \in Int, NEW b \in Int,
         NEW r \in 0 .. m - 1, NEW s \in 0 .. m - 1, m * a + r = m * b + s
  PROVE  r = s
<1>1. ASSUME NEW c \in Int, NEW d \in Int, c < d
      PROVE  m * d - m * c >= m
  <2>1. d - c >= 1 /\ d - c \in Nat
    BY <1>1
  <2>2. m * (d - c) >= m
    BY <2>1
  <2>3. m * (d - c) = m * d - m * c
    OBVIOUS
  <2> QED
    BY <2>2, <2>3
<1>2. m * a \in Int /\ m * b \in Int
  OBVIOUS
<1>3. CASE a = b
  BY <1>3
<1>4. CASE a < b
  <2>1. m * b - m * a >= m
    BY <1>1, <1>4
  <2> QED
    BY <1>2, <2>1
<1>5. CASE a > b
  <2>1. m * a - m * b >= m
    BY <1>1, <1>5
  <2> QED
    BY <1>2, <2>1
<1> QED
  BY <1>3, <1>4, <1>5

\* A remainder may be taken before an addition.
LEMMA RemainderOfSum ==
  ASSUME NEW x \in Int, NEW y \in Int, NEW m \in Nat \ {0}
  PROVE  ((x % m) + y) % m = (x + y) % m
<1> DEFINE q == x \div m
           r == x % m
           p == (r + y) \div m
           t == (r + y) % m
           u == (x + y) \div m
           v == (x + y) % m
<1>1. q \in Int /\ r \in 0 .. m - 1 /\ x = m * q + r
  BY Division
<1>2. r + y \in Int /\ x + y \in Int
  BY <1>1
<1>3. p \in Int /\ t \in 0 .. m - 1 /\ r + y = m * p + t
  BY <1>2, Division
<1>4. u \in Int /\ v \in 0 .. m - 1 /\ x + y = m * u + v
  BY <1>2, Division
<1> HIDE DEF q, r, p, t, u, v
<1>5. m * (q + p) = m * q + m * p
  BY <1>1, <1>3
<1>6. m * (q + p) + t = m * u + v
  <2>1. m * q \in Int /\ m * p \in Int /\ m * u \in Int
    BY <1>1, <1>3, <1>4
  <2> QED
    BY <1>1, <1>3, <1>4, <1>5, <2>1
<1>7. q + p \in Int
  BY <1>1, <1>3
<1>8. t = v
  BY <1>3, <1>4, <1>6, <1>7, OneRemainder
<1> QED
  BY <1>8 DEF t, v, r

LEMMA RemaindersShift ==
  ASSUME NEW a \in Int, NEW t \in Int, NEW w \in Int, NEW m \in Nat \ {0}
  PROVE  (((a + t) % m) + w) % m = (a + ((t + w) % m)) % m
<1> DEFINE x == a + t
           y == t + w
<1>1. x \in Int /\ y \in Int /\ x + w = y + a
  OBVIOUS
<1>2. y % m \in Int
  BY <1>1, Division
<1> HIDE DEF x, y
<1>3. ((x % m) + w) % m = (x + w) % m
  BY <1>1, RemainderOfSum
<1>4. ((y % m) + a) % m = (y + a) % m
  BY <1>1, RemainderOfSum
<1>5. (y % m) + a = a + (y % m)
  BY <1>2
<1> QED
  BY <1>1, <1>3, <1>4, <1>5 DEF x, y

LEMMA SmallIsRemainder ==
  ASSUME NEW m \in Nat \ {0}, NEW a \in 0 .. m - 1
  PROVE  (a + 0) % m = a
OBVIOUS

Weights(e, args, regs) == [k \in 1 .. Len(e) |-> Worth(e[k], args, regs)]

Sums(w, n, m, f) == f = [k \in 0 .. n |-> IF k = 0 THEN 0 ELSE (f[k - 1] + w[k]) % m]

LEMMA SumsDefined ==
  ASSUME NEW w, NEW n \in Nat, NEW m
  PROVE  \E f : Sums(w, n, m, f)
<1> DEFINE Bad == {k \in Nat : ~\E f : Sums(w, k, m, f)}
<1>1. ASSUME Bad # {} PROVE FALSE
  <2>1. PICK k \in Bad : \A j \in Bad : k <= j
    BY <1>1, SmallestExists
  <2>2. CASE k = 0
    <3> DEFINE f == [j \in 0 .. 0 |-> 0]
    <3>1. f = [j \in 0 .. 0 |-> IF j = 0 THEN 0 ELSE (f[j - 1] + w[j]) % m]
      OBVIOUS
    <3> QED
      BY <2>1, <2>2, <3>1 DEF Sums
  <2>3. CASE k # 0
    <3>1. k - 1 \in Nat /\ k - 1 \notin Bad
      BY <2>1, <2>3
    <3>2. PICK f : Sums(w, k - 1, m, f)
      BY <3>1
    <3> DEFINE next == [j \in 0 .. k |-> IF j = k THEN (f[k - 1] + w[k]) % m ELSE f[j]]
    <3>3. ASSUME NEW j \in 0 .. k
          PROVE  next[j] = IF j = 0 THEN 0 ELSE (next[j - 1] + w[j]) % m
      <4>1. CASE j = k
        BY <2>3, <4>1
      <4>2. CASE j # k
        <5>1. j \in 0 .. (k - 1) /\ next[j] = f[j]
          BY <4>2
        <5>2. f[j] = IF j = 0 THEN 0 ELSE (f[j - 1] + w[j]) % m
          BY <3>2, <5>1 DEF Sums
        <5> QED
          BY <5>1, <5>2
      <4> QED
        BY <4>1, <4>2
    <3>4. Sums(w, k, m, next)
      BY <3>3 DEF Sums
    <3> QED
      BY <2>1, <3>4
  <2> QED
    BY <2>2, <2>3
<1> QED
  BY <1>1

Adding(w, n, m, f) ==
  /\ f[0] = 0
  /\ \A k \in 0 .. n : f[k] \in 0 .. m - 1
  /\ \A k \in 1 .. n : f[k] = (f[k - 1] + w[k]) % m

\* Sums of numbers are remainders.
LEMMA SumsAreRemainders ==
  ASSUME NEW n \in Nat, NEW w \in [1 .. n -> Int], NEW m \in Nat \ {0}, NEW f, Sums(w, n, m, f)
  PROVE  Adding(w, n, m, f)
<1>1. /\ f[0] = 0
      /\ \A k \in 1 .. n : f[k] = (f[k - 1] + w[k]) % m
  BY DEF Sums
<1> DEFINE Bad == {k \in 0 .. n : f[k] \notin 0 .. m - 1}
<1>2. ASSUME Bad # {} PROVE FALSE
  <2>1. PICK k \in Bad : \A j \in Bad : k <= j
    <3>1. Bad \in SUBSET Nat
      OBVIOUS
    <3> QED
      BY <1>2, <3>1, SmallestExists
  <2>2. k # 0
    BY <1>1, <2>1
  <2>3. k - 1 \in 0 .. n /\ k - 1 \notin Bad /\ k \in 1 .. n
    BY <2>1, <2>2
  <2>4. f[k - 1] \in 0 .. m - 1 /\ w[k] \in Int
    BY <2>3
  <2>5. f[k - 1] + w[k] \in Int /\ f[k] = (f[k - 1] + w[k]) % m
    BY <1>1, <2>3, <2>4
  <2>6. f[k] \in 0 .. m - 1
    BY <2>5, Division
  <2> QED
    BY <2>1, <2>6
<1> QED
  BY <1>1, <1>2 DEF Adding

LEMMA MeaningIsSum ==
  ASSUME NEW e \in Seq(Symbols), NEW args, NEW regs, NEW m
  PROVE  \E f : /\ Sums(Weights(e, args, regs), Len(e), m, f)
                /\ Meaning(e, args, regs, m) = f[Len(e)]
<1> DEFINE Way(f) == f = [k \in 0 .. Len(e) |->
             IF k = 0 THEN 0 ELSE (f[k - 1] + Worth(e[k], args, regs)) % m]
           sum == CHOOSE f : Way(f)
<1>1. Meaning(e, args, regs, m) = sum[Len(e)]
  BY DEF Meaning
<1>2. ASSUME NEW f PROVE Way(f) <=> Sums(Weights(e, args, regs), Len(e), m, f)
  <2>1. \A k \in 0 .. Len(e) : k # 0 => Weights(e, args, regs)[k] = Worth(e[k], args, regs)
    BY DEF Weights
  <2> QED
    BY <2>1 DEF Sums
<1>3. \E f : Sums(Weights(e, args, regs), Len(e), m, f)
  <2>1. Len(e) \in Nat
    OBVIOUS
  <2> QED
    BY <2>1, SumsDefined
<1>4. Way(sum)
  BY <1>2, <1>3
<1> QED
  BY <1>1, <1>2, <1>4

\* Two sums over the same numbers are equal.
LEMMA SumsAgree ==
  ASSUME NEW w, NEW v, NEW n \in Nat, NEW m, NEW f, NEW g,
         Sums(w, n, m, f), Sums(v, n, m, g), \A k \in 1 .. n : w[k] = v[k]
  PROVE  \A k \in 0 .. n : f[k] = g[k]
<1> DEFINE Bad == {k \in 0 .. n : f[k] # g[k]}
<1>1. ASSUME Bad # {} PROVE FALSE
  <2>1. PICK k \in Bad : \A j \in Bad : k <= j
    <3>1. Bad \in SUBSET Nat
      OBVIOUS
    <3> QED
      BY <1>1, <3>1, SmallestExists
  <2>2. /\ f[k] = IF k = 0 THEN 0 ELSE (f[k - 1] + w[k]) % m
        /\ g[k] = IF k = 0 THEN 0 ELSE (g[k - 1] + v[k]) % m
    BY <2>1 DEF Sums
  <2>3. k # 0 => k - 1 \in 0 .. n /\ k - 1 \notin Bad /\ k \in 1 .. n
    BY <2>1
  <2> QED
    BY <2>1, <2>2, <2>3
<1> QED
  BY <1>1

LEMMA SumsEqual ==
  ASSUME NEW w, NEW n \in Nat, NEW m, NEW f, NEW g, Sums(w, n, m, f), Sums(w, n, m, g)
  PROVE  f[n] = g[n]
<1>1. \A k \in 1 .. n : w[k] = w[k]
  OBVIOUS
<1>2. \A k \in 0 .. n : f[k] = g[k]
  BY <1>1, SumsAgree
<1> QED
  BY <1>2

\* The weights of an expression that is fixed are numbers, whatever the registers hold.
LEMMA FixedWeights ==
  ASSUME NEW e \in Seq(Symbols), Fixed(e), NEW args \in [Registers -> Int], NEW regs
  PROVE  /\ Weights(e, args, regs) \in [1 .. Len(e) -> Int]
         /\ \A s : Weights(e, args, s) = Weights(e, args, regs)
<1>1. ASSUME NEW k \in 1 .. Len(e), NEW s
      PROVE  Worth(e[k], args, s) \in Int /\ Worth(e[k], args, s) = Worth(e[k], args, regs)
  <2>1. e[k] \in Symbols /\ e[k][1] \in {"op", "value", "arg"}
    BY DEF Fixed
  <2>2. CASE e[k][1] = "op"
    BY <2>2 DEF Worth
  <2>3. CASE e[k][1] = "value"
    <3>1. e[k][2] \in Int
      BY <2>1, <2>3 DEF Symbols
    <3> QED
      BY <2>3, <3>1 DEF Worth
  <2>4. CASE e[k][1] = "arg"
    <3>1. e[k][2] \in Registers
      BY <2>1, <2>4 DEF Symbols
    <3> QED
      BY <2>4, <3>1 DEF Worth
  <2> QED
    BY <2>1, <2>2, <2>3, <2>4
<1> QED
  BY <1>1 DEF Weights

\* What a fixed expression says is a number, and the same wherever it is printed.
LEMMA FixedMeaning ==
  ASSUME NEW e \in Seq(Symbols), Fixed(e), NEW args \in [Registers -> Int], NEW regs,
         NEW m \in Nat \ {0}
  PROVE  /\ Meaning(e, args, regs, m) \in 0 .. m - 1
         /\ \A s : Meaning(e, args, s, m) = Meaning(e, args, regs, m)
<1>1. PICK f : /\ Sums(Weights(e, args, regs), Len(e), m, f)
               /\ Meaning(e, args, regs, m) = f[Len(e)]
  BY MeaningIsSum
<1>2. Len(e) \in Nat /\ Len(e) \in 0 .. Len(e)
  OBVIOUS
<1>3. Meaning(e, args, regs, m) \in 0 .. m - 1
  <2> DEFINE n == Len(e)
             w == Weights(e, args, regs)
  <2>1. w \in [1 .. n -> Int] /\ n \in Nat /\ n \in 0 .. n /\ Sums(w, n, m, f)
    BY <1>1, <1>2, FixedWeights
  <2> HIDE DEF n, w
  <2>2. Adding(w, n, m, f)
    BY <2>1, SumsAreRemainders
  <2> QED
    BY <1>1, <2>1, <2>2 DEF n, Adding
<1>4. ASSUME NEW s PROVE Meaning(e, args, s, m) = Meaning(e, args, regs, m)
  <2>1. PICK g : /\ Sums(Weights(e, args, s), Len(e), m, g)
                 /\ Meaning(e, args, s, m) = g[Len(e)]
    BY MeaningIsSum
  <2>2. Weights(e, args, s) = Weights(e, args, regs)
    BY FixedWeights
  <2> DEFINE n == Len(e)
             w == Weights(e, args, regs)
  <2>3. Sums(w, n, m, f) /\ Sums(w, n, m, g) /\ n \in Nat
    BY <1>1, <1>2, <2>1, <2>2
  <2> HIDE DEF n, w
  <2>4. f[n] = g[n]
    BY <2>3, SumsEqual
  <2> QED
    BY <1>1, <1>2, <2>1, <2>4 DEF n
<1> QED
  BY <1>3, <1>4

\* A symbol says what it is worth.
LEMMA MeaningOfSymbol ==
  ASSUME NEW y \in Symbols, NEW args, NEW regs, NEW m \in Nat \ {0},
         Worth(y, args, regs) \in Int
  PROVE  Meaning(<< y >>, args, regs, m) = Worth(y, args, regs) % m
<1> DEFINE e == << y >>
           v == Worth(y, args, regs)
<1>1. e \in Seq(Symbols) /\ Len(e) = 1 /\ e[1] = y
  OBVIOUS
<1> HIDE DEF e, v
<1>2. PICK f : /\ Sums(Weights(e, args, regs), Len(e), m, f)
               /\ Meaning(e, args, regs, m) = f[Len(e)]
  BY <1>1, MeaningIsSum
<1>3. Weights(e, args, regs)[1] = v
  BY <1>1 DEF Weights, v
<1>4. f[0] = 0 /\ f[1] = (f[0] + Weights(e, args, regs)[1]) % m
  BY <1>1, <1>2 DEF Sums
<1>5. (0 + v) % m = v % m
  BY DEF v
<1> QED
  BY <1>1, <1>2, <1>3, <1>4, <1>5 DEF e, v

\* A sum says the sum of what its operands say.
LEMMA MeaningOfCombined ==
  ASSUME NEW e \in Seq(Symbols), NEW f \in Seq(Symbols), Fixed(Combined(e, f)),
         NEW args \in [Registers -> Int], NEW regs, NEW m \in Nat \ {0}
  PROVE  /\ Fixed(e) /\ Fixed(f)
         /\ Meaning(Combined(e, f), args, regs, m)
              = (Meaning(e, args, regs, m) + Meaning(f, args, regs, m)) % m
<1> DEFINE c == Combined(e, f)
           we == Weights(e, args, regs)
           wf == Weights(f, args, regs)
           wc == Weights(c, args, regs)
<1>1. /\ c \in Seq(Symbols) /\ Len(c) = 1 + Len(e) + Len(f)
      /\ c[1] = <<"op">>
      /\ \A k \in 1 .. Len(e) : c[k + 1] = e[k]
      /\ \A k \in 1 .. Len(f) : c[(1 + Len(e)) + k] = f[k]
  <2>1. c \in Seq(Symbols) /\ Len(c) = 1 + Len(e) + Len(f)
    BY CombinedIsSequence
  <2>2. << <<"op">> >> \in Seq(Symbols)
    BY DEF Symbols
  <2> DEFINE d == << <<"op">> >> \o e
  <2>3. d \in Seq(Symbols) /\ Len(d) = 1 + Len(e) /\ d[1] = <<"op">>
        /\ \A k \in 1 .. Len(e) : d[k + 1] = e[k]
    BY <2>2
  <2>4. c = d \o f
    BY DEF Combined
  <2> HIDE DEF c, d
  <2>5. /\ \A k \in 1 .. Len(d) : c[k] = d[k]
        /\ \A k \in 1 .. Len(f) : c[Len(d) + k] = f[k]
    BY <2>3, <2>4
  <2>6. c[1] = <<"op">> /\ \A k \in 1 .. Len(e) : c[k + 1] = e[k]
    <3>1. 1 \in 1 .. Len(d) /\ \A k \in 1 .. Len(e) : k + 1 \in 1 .. Len(d)
      BY <2>3
    <3> QED
      BY <2>3, <2>5, <3>1
  <2> QED
    BY <2>1, <2>3, <2>5, <2>6
<1>2. Fixed(c)
  OBVIOUS
<1> HIDE DEF c
<1>3. Len(e) \in Nat /\ Len(f) \in Nat
  OBVIOUS
<1>4. Fixed(e) /\ Fixed(f)
  <2>1. ASSUME NEW k \in 1 .. Len(e) PROVE e[k][1] \in {"op", "value", "arg"}
    <3>1. k + 1 \in 1 .. Len(c) /\ c[k + 1] = e[k]
      BY <1>1, <1>3
    <3> QED
      BY <1>2, <3>1 DEF Fixed
  <2>2. ASSUME NEW k \in 1 .. Len(f) PROVE f[k][1] \in {"op", "value", "arg"}
    <3>1. (1 + Len(e)) + k \in 1 .. Len(c) /\ c[(1 + Len(e)) + k] = f[k]
      BY <1>1, <1>3
    <3> QED
      BY <1>2, <3>1 DEF Fixed
  <2> QED
    BY <2>1, <2>2 DEF Fixed
<1>5. /\ wc[1] = 0
      /\ \A k \in 1 .. Len(e) : wc[k + 1] = we[k]
      /\ \A k \in 1 .. Len(f) : wc[(1 + Len(e)) + k] = wf[k]
  <2>1. 1 \in 1 .. Len(c)
    BY <1>1, <1>3
  <2>2. wc[1] = 0
    BY <1>1, <2>1 DEF Weights, Worth
  <2>3. ASSUME NEW k \in 1 .. Len(e) PROVE wc[k + 1] = we[k]
    <3>1. k + 1 \in 1 .. Len(c) /\ c[k + 1] = e[k]
      BY <1>1, <1>3
    <3> QED
      BY <3>1 DEF Weights
  <2>4. ASSUME NEW k \in 1 .. Len(f) PROVE wc[(1 + Len(e)) + k] = wf[k]
    <3>1. (1 + Len(e)) + k \in 1 .. Len(c) /\ c[(1 + Len(e)) + k] = f[k]
      BY <1>1, <1>3
    <3> QED
      BY <3>1 DEF Weights
  <2> QED
    BY <2>2, <2>3, <2>4
<1>6. /\ we \in [1 .. Len(e) -> Int]
      /\ wf \in [1 .. Len(f) -> Int]
      /\ wc \in [1 .. Len(c) -> Int]
  BY <1>1, <1>2, <1>4, FixedWeights
<1>7. PICK S : Sums(we, Len(e), m, S) /\ Meaning(e, args, regs, m) = S[Len(e)]
  BY MeaningIsSum
<1>8. PICK T : Sums(wf, Len(f), m, T) /\ Meaning(f, args, regs, m) = T[Len(f)]
  BY MeaningIsSum
<1>9. PICK U : Sums(wc, Len(c), m, U) /\ Meaning(c, args, regs, m) = U[Len(c)]
  <2>1. c \in Seq(Symbols)
    BY <1>1
  <2> QED
    BY <2>1, MeaningIsSum
<1> HIDE DEF we, wf, wc
<1>10. /\ S[0] = 0
       /\ \A k \in 0 .. Len(e) : S[k] \in 0 .. m - 1
       /\ \A k \in 1 .. Len(e) : S[k] = (S[k - 1] + we[k]) % m
  <2> DEFINE n == Len(e)
  <2>1. n \in Nat /\ we \in [1 .. n -> Int] /\ Sums(we, n, m, S)
    BY <1>3, <1>6, <1>7
  <2> HIDE DEF n
  <2>2. Adding(we, n, m, S)
    BY <2>1, SumsAreRemainders
  <2> QED
    BY <2>2 DEF n, Adding
<1>11. /\ T[0] = 0
       /\ \A k \in 0 .. Len(f) : T[k] \in 0 .. m - 1
       /\ \A k \in 1 .. Len(f) : T[k] = (T[k - 1] + wf[k]) % m
  <2> DEFINE n == Len(f)
  <2>1. n \in Nat /\ wf \in [1 .. n -> Int] /\ Sums(wf, n, m, T)
    BY <1>3, <1>6, <1>8
  <2> HIDE DEF n
  <2>2. Adding(wf, n, m, T)
    BY <2>1, SumsAreRemainders
  <2> QED
    BY <2>2 DEF n, Adding
<1>12. /\ U[0] = 0
       /\ \A k \in 0 .. Len(c) : U[k] \in 0 .. m - 1
       /\ \A k \in 1 .. Len(c) : U[k] = (U[k - 1] + wc[k]) % m
  <2> DEFINE n == Len(c)
  <2>1. n \in Nat /\ wc \in [1 .. n -> Int] /\ Sums(wc, n, m, U)
    BY <1>1, <1>3, <1>6, <1>9
  <2> HIDE DEF n
  <2>2. Adding(wc, n, m, U)
    BY <2>1, SumsAreRemainders
  <2> QED
    BY <2>2 DEF n, Adding
<1>13. \A k \in 0 .. Len(e) : U[k + 1] = S[k]
  <2> DEFINE Bad == {k \in 0 .. Len(e) : U[k + 1] # S[k]}
  <2>1. ASSUME Bad # {} PROVE FALSE
    <3>1. PICK k \in Bad : \A j \in Bad : k <= j
      <4>1. Bad \in SUBSET Nat
        BY <1>3
      <4> QED
        BY <2>1, <4>1, SmallestExists
    <3>2. k \in Nat /\ k + 1 \in 1 .. Len(c) /\ (k + 1) - 1 = k
      BY <1>1, <1>3, <3>1
    <3>3. U[k + 1] = (U[k] + wc[k + 1]) % m
      BY <1>12, <3>2
    <3>4. CASE k = 0
      <4>1. U[1] = (0 + 0) % m
        BY <1>5, <1>12, <3>3, <3>4
      <4>2. U[1] = 0
        BY <4>1
      <4> QED
        BY <1>10, <3>1, <3>4, <4>2
    <3>5. CASE k # 0
      <4>1. k \in 1 .. Len(e) /\ k - 1 \in 0 .. Len(e) /\ k - 1 \notin Bad
        BY <1>3, <3>1, <3>2, <3>5
      <4>2. U[(k - 1) + 1] = S[k - 1] /\ (k - 1) + 1 = k
        BY <3>2, <4>1
      <4>3. U[k + 1] = (S[k - 1] + we[k]) % m
        BY <1>5, <3>3, <4>1, <4>2
      <4> QED
        BY <1>10, <3>1, <4>1, <4>3
    <3> QED
      BY <3>4, <3>5
  <2> QED
    BY <2>1
<1> DEFINE a == S[Len(e)]
<1>14. a \in 0 .. m - 1 /\ U[1 + Len(e)] = a
  BY <1>3, <1>10, <1>13
<1> HIDE DEF a
<1>15. \A k \in 0 .. Len(f) : U[(1 + Len(e)) + k] = (a + T[k]) % m
  <2> DEFINE Bad == {k \in 0 .. Len(f) : U[(1 + Len(e)) + k] # (a + T[k]) % m}
  <2>1. ASSUME Bad # {} PROVE FALSE
    <3>1. PICK k \in Bad : \A j \in Bad : k <= j
      <4>1. Bad \in SUBSET Nat
        BY <1>3
      <4> QED
        BY <2>1, <4>1, SmallestExists
    <3>2. CASE k = 0
      <4>1. (a + 0) % m = a
        BY <1>14, SmallIsRemainder
      <4>2. (1 + Len(e)) + 0 = 1 + Len(e)
        BY <1>3
      <4> QED
        BY <1>11, <1>14, <3>1, <3>2, <4>1, <4>2
    <3>3. CASE k # 0
      <4>1. k \in 1 .. Len(f) /\ k - 1 \in 0 .. Len(f) /\ k - 1 \notin Bad
        BY <1>3, <3>1, <3>3
      <4>2. U[(1 + Len(e)) + (k - 1)] = (a + T[k - 1]) % m
        BY <4>1
      <4>3. /\ (1 + Len(e)) + k \in 1 .. Len(c)
            /\ ((1 + Len(e)) + k) - 1 = (1 + Len(e)) + (k - 1)
        BY <1>1, <1>3, <4>1
      <4>4. U[(1 + Len(e)) + k] = (((a + T[k - 1]) % m) + wf[k]) % m
        BY <1>5, <1>12, <4>1, <4>2, <4>3
      <4>5. a \in Int /\ T[k - 1] \in Int /\ wf[k] \in Int
        <5>1. a \in 0 .. m - 1 /\ T[k - 1] \in 0 .. m - 1
          BY <1>11, <1>14, <4>1
        <5>2. wf[k] \in Int
          BY <1>6, <4>1
        <5> QED
          BY <5>1, <5>2
      <4>6. (((a + T[k - 1]) % m) + wf[k]) % m = (a + ((T[k - 1] + wf[k]) % m)) % m
        BY <4>5, RemaindersShift
      <4>7. T[k] = (T[k - 1] + wf[k]) % m
        BY <1>11, <4>1
      <4> QED
        BY <3>1, <4>4, <4>6, <4>7
    <3> QED
      BY <3>2, <3>3
  <2> QED
    BY <2>1
<1>16. U[Len(c)] = (a + T[Len(f)]) % m
  <2>1. Len(f) \in 0 .. Len(f) /\ Len(c) = (1 + Len(e)) + Len(f)
    BY <1>1, <1>3
  <2> QED
    BY <1>15, <2>1
<1> QED
  BY <1>4, <1>7, <1>8, <1>9, <1>16 DEF a, c

-----------------------------------------------------------------------------
(***************************************************************************)
(* The theorems.                                                           *)
(***************************************************************************)

LEMMA StepIInv == IInv /\ [Next]_vars => IInv'
BY StutterPreserves, LeavePreserves, BeginPreserves, StopPreserves, SkipPreserves,
   RunPreserves, ApplyPreserves, EndPreserves, MergePreserves DEF Next

\* The invariant is inductive, whatever the graph, the registers and the bounds.
THEOREM Inductive == Spec => []IInv
BY InitIInv, StepIInv, PTL DEF Spec

\* What a block has made of a state is what its instructions make of it one by one, the
\* first block never promises more than the arguments, and nothing is left to run
\* when the analysis is done.
THEOREM Solved == Spec => [](RunInv /\ EntryInv /\ DoneInv /\ ReachedInv)
<1>1. Init => RunInv /\ EntryInv /\ DoneInv /\ ReachedInv
  BY IdleRuns DEF Init
<1> QED
  BY <1>1, Inductive, RunsKept, EntryKept, DoneKept, ReachedKept, PTL DEF Spec

\* The work list holds no address twice, and no stored expression is longer than
\* MAX_EXPRESSION_LEN.
THEOREM TypeCorrect == Spec => []TypeOK
<1>1. IInv => TypeOK
  BY DEF IInv
<1> QED
  BY Inductive, <1>1, PTL

\* When compute_states returns, its table solves the equations of the analysis.
THEOREM Stability == Spec => []Stable
<1>1. IInv => Stable
  BY DEF IInv
<1> QED
  BY Inductive, <1>1, PTL

\* The number of steps is bounded by the size of the graph.
THEOREM Bound == Spec => []StepBound
<1>1. IInv => StepBound
  <2> SUFFICES ASSUME IInv PROVE StepBound
    OBVIOUS
  <2> DEFINE all == Cardinality(DOMAIN states) * (Cardinality(Registers) + 1)
  <2>1. /\ Cardinality(Spent) \in Nat
        /\ Cardinality(Spent) <= all
    BY TokensAreFinite, FS_CardinalityType DEF IInv
  <2>2. all \in Nat
    BY TokensAreFinite, RegisterAssumption, FS_CardinalityType DEF IInv
  <2>3. steps + Len(queue) <= Cardinality(Spent) /\ Len(queue) \in Nat /\ steps \in Nat
    BY DEF IInv, BudgetInv, TypeOK
  <2> HIDE DEF all
  <2>4. steps <= all
    BY <2>1, <2>2, <2>3
  <2> QED
    BY <2>4 DEF all, StepBound
<1> QED
  BY Inductive, <1>1, PTL

\* With room for one step per address and register, no analysis is cut short.
THEOREM LimitOutOfReach ==
  MaxSteps >= Cardinality(Addresses) * (Cardinality(Registers) + 1) => (Spec => [](lift # "limit"))
<1> SUFFICES ASSUME MaxSteps >= Cardinality(Addresses) * (Cardinality(Registers) + 1)
             PROVE  Spec => [](lift # "limit")
  OBVIOUS
<1> DEFINE Free == lift # "limit"
<1>1. Init => Free
  BY DEF Init, Idle
<1>2. IInv /\ Free /\ [Next]_vars => Free'
  <2> SUFFICES ASSUME IInv, Free, [Next]_vars PROVE Free'
    OBVIOUS
  <2> DEFINE n == Cardinality(Registers) + 1
             a == Cardinality(DOMAIN states)
             b == Cardinality(Addresses)
  <2>1. n \in Nat /\ a \in Nat /\ b \in Nat /\ a <= b
    BY TokensAreFinite, RegisterAssumption, BlockAssumption, FS_CardinalityType, FS_Subset
       DEF IInv, TypeOK
  <2>2. b * n <= MaxSteps
    OBVIOUS
  <2> HIDE DEF n, a, b
  <2>3. a * n <= b * n /\ a * n \in Nat /\ b * n \in Nat
    BY <2>1
  <2>4. a * n <= MaxSteps
    BY <2>2, <2>3, BoundAssumption
  <2> QED
    BY <2>4, StepsSuffice DEF a, n
<1> QED
  BY <1>1, <1>2, Inductive, PTL DEF Spec

\* No step binds a register anew in a state that some path has weakened.
THEOREM OnlyWeakened == Spec => Weakening
<1>1. IInv /\ [Next]_vars =>
        [\A a \in DOMAIN states : a \in DOMAIN states' /\ Below(states'[a], states[a])]_vars
  <2> SUFFICES ASSUME IInv, Next
               PROVE  \A a \in DOMAIN states : a \in DOMAIN states' /\ Below(states'[a], states[a])
    OBVIOUS
  <2>1. CASE MergeSuccessor
    BY <2>1, MergeFacts DEF Below
  <2>2. CASE Begin
    BY <2>2 DEF IInv, StartInv, Begin
  <2>3. CASE ~MergeSuccessor /\ ~Begin
    <3>1. states' = states
      BY <2>3 DEF Next, NoBlocks, WorkListEmpty, StopAtLimit, SkipMissing, RunBlock,
                  ApplyInstruction, EndOfBlock, NextBlock
    <3> QED
      BY <3>1 DEF Below
  <2> QED
    BY <2>1, <2>2, <2>3
<1> QED
  BY Inductive, <1>1, PTL DEF Spec, Weakening
=============================================================================
