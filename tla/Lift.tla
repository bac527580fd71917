-------------------------------- MODULE Lift --------------------------------
(***************************************************************************)
(* Symbolic propagation of register values over the control-flow graph of  *)
(* one function: compute_states of src/src/engines/native_v050/lift.rs.    *)
(*                                                                         *)
(* A FIFO work list of blocks is run through apply_state; where two states  *)
(* meet, merge_state keeps the bindings they share (SymbolicState).         *)
(***************************************************************************)
EXTENDS SymbolicState

CONSTANTS
  Addresses,        \* addresses of blocks and of branch targets
  Effects,          \* what instructions may do
  Functions,        \* the graphs that may be handed in
  MaxSteps          \* MAX_DATAFLOW_STEPS

ASSUME EffectAssumption ==
  \A e \in Effects : /\ e.op \in Operations
                     /\ e.dst \in Registers
                     /\ e.src.kind \in {"register", "value"}
                     /\ e.src.kind = "register" => e.src.of \in Registers
                     /\ e.src.kind = "value" => IsExpression(e.src.of)

ASSUME BlockAssumption ==
  /\ Addresses \subseteq Nat /\ IsFiniteSet(Addresses)
  /\ \A f \in Functions :
       /\ DOMAIN f.blocks \subseteq Addresses
       /\ \A b \in DOMAIN f.blocks :
            /\ f.blocks[b].instructions \in Seq(DOMAIN f.effect)
            /\ f.blocks[b].successors \subseteq Addresses
       /\ \A a \in DOMAIN f.effect : f.effect[a] \in Effects

ASSUME BoundAssumption == MaxSteps \in Nat

VARIABLES
  blocks, effect,    \* the graph, and the effect of each instruction: not changed
  states,            \* the state at the start of each block reached so far
  queue, queued,     \* the work list
  steps,
  lift,              \* "start", "pop", "apply", "merge", "done", "limit"
  address, index, state, left,    \* locals: block, instruction, its state, successors to merge
  from, out          \* history: the last state each block was run from, and the result

input  == <<blocks, effect>>
locals == <<address, index, state, left>>
vars   == <<input, states, queue, queued, steps, lift, locals, from, out>>

-----------------------------------------------------------------------------
(***************************************************************************)
(* compute_states.                                                         *)
(***************************************************************************)
Least(S) == CHOOSE a \in S : \A b \in S : a <= b

Idle ==
  /\ states = << >> /\ queue = <<>> /\ queued = {}
  /\ steps = 0 /\ lift = "start"
  /\ address = 0 /\ index = 0 /\ state = Unbound /\ left = {}
  /\ from = << >> /\ out = << >>

Init ==
  /\ \E f \in Functions : blocks = f.blocks /\ effect = f.effect
  /\ Idle

\* `function.blocks.first()': the blocks are sorted.
Begin ==
  /\ lift = "start"
  /\ DOMAIN blocks # {}
  /\ LET entry == Least(DOMAIN blocks)
     IN  /\ states' = [a \in {entry} |-> InitialState]
         /\ queue' = <<entry>>
         /\ queued' = {entry}
  /\ lift' = "pop"
  /\ UNCHANGED <<input, steps, locals, from, out>>

NoBlocks ==
  /\ lift = "start"
  /\ DOMAIN blocks = {}
  /\ lift' = "done"
  /\ UNCHANGED <<input, states, queue, queued, steps, locals, from, out>>

WorkListEmpty ==
  /\ lift = "pop"
  /\ queue = <<>>
  /\ lift' = "done"
  /\ UNCHANGED <<input, states, queue, queued, steps, locals, from, out>>

Pop ==
  /\ lift = "pop"
  /\ queue # <<>>
  /\ queue' = Tail(queue)
  /\ queued' = queued \ {Head(queue)}
  /\ steps' = steps + 1

StopAtLimit ==
  /\ Pop
  /\ steps + 1 > MaxSteps
  /\ lift' = "limit"
  /\ UNCHANGED <<input, states, locals, from, out>>

\* A successor that no block starts at has a state and nothing to run.
SkipMissing ==
  /\ Pop
  /\ steps + 1 <= MaxSteps
  /\ Head(queue) \notin DOMAIN blocks
  /\ UNCHANGED <<input, states, lift, locals, from, out>>

RunBlock ==
  /\ Pop
  /\ steps + 1 <= MaxSteps
  /\ Head(queue) \in DOMAIN blocks
  /\ address' = Head(queue)
  /\ index' = 1
  /\ state' = states[Head(queue)]
  /\ lift' = "apply"
  /\ UNCHANGED <<input, states, left, from, out>>

ApplyInstruction ==
  /\ lift = "apply"
  /\ index <= Len(blocks[address].instructions)
  /\ state' = Apply(state, effect[blocks[address].instructions[index]])
  /\ index' = index + 1
  /\ UNCHANGED <<input, states, queue, queued, steps, lift, address, left, from, out>>

EndOfBlock ==
  /\ lift = "apply"
  /\ index > Len(blocks[address].instructions)
  /\ left' = blocks[address].successors
  /\ from' = [b \in DOMAIN from \cup {address} |->
                IF b = address THEN states[address] ELSE from[b]]
  /\ out' = [b \in DOMAIN out \cup {address} |-> IF b = address THEN state ELSE out[b]]
  /\ lift' = "merge"
  /\ UNCHANGED <<input, states, queue, queued, steps, address, index, state>>

Merged(s) == IF s \in DOMAIN states THEN Meet(states[s], state) ELSE state

\* Mutant: every merge counts as a change.
AlwaysChanged(s) == TRUE

Changed(s) == s \in DOMAIN states => Merged(s) # states[s]

\* One turn of `for successor in &block.successors'.
MergeSuccessor ==
  /\ lift = "merge"
  /\ left # {}
  /\ LET s == Least(left)
     IN  /\ states' = [a \in DOMAIN states \cup {s} |-> IF a = s THEN Merged(s) ELSE states[a]]
         /\ queue' = IF Changed(s) /\ s \notin queued THEN Append(queue, s) ELSE queue
         /\ queued' = IF Changed(s) THEN queued \cup {s} ELSE queued
         /\ left' = left \ {s}
  /\ UNCHANGED <<input, steps, lift, address, index, state, from, out>>

NextBlock ==
  /\ lift = "merge"
  /\ left = {}
  /\ lift' = "pop"
  /\ UNCHANGED <<input, states, queue, queued, steps, locals, from, out>>

Next ==
  \/ Begin
  \/ NoBlocks
  \/ WorkListEmpty
  \/ StopAtLimit
  \/ SkipMissing
  \/ RunBlock
  \/ ApplyInstruction
  \/ EndOfBlock
  \/ MergeSuccessor
  \/ NextBlock

Spec == Init /\ [][Next]_vars

-----------------------------------------------------------------------------
\* The state that the instructions of b before the n-th make of s.
RunTo(b, s, n) ==
  LET at[k \in 1 .. n] ==
        IF k = 1 THEN s ELSE Apply(at[k - 1], effect[blocks[b].instructions[k - 1]])
  IN  at[n]

Elements(s) == {s[i] : i \in 1 .. Len(s)}

\* b is being run: its successors are not all merged yet.
InProgress(b) == lift \in {"apply", "merge"} /\ b = address

\* The type invariant of the tables of compute_states, with the work list as a
\* set and a sequence; no stored expression is longer than MAX_EXPRESSION_LEN.
TypeOK ==
  /\ DOMAIN blocks \subseteq Addresses
  /\ DOMAIN states \subseteq Addresses
  /\ queue \in Seq(DOMAIN states)
  /\ queued = Elements(queue)
  /\ \A i, j \in 1 .. Len(queue) : queue[i] = queue[j] => i = j
  /\ steps \in Nat
  /\ lift \in {"start", "pop", "apply", "merge", "done", "limit"}
  /\ lift \in {"apply", "merge"} => address \in DOMAIN blocks \cap DOMAIN states
  /\ index \in Nat /\ (lift = "apply" => index > 0)
  /\ left \subseteq Addresses
  /\ IsState(state)
  /\ \A a \in DOMAIN states : IsState(states[a])

\* The analysis is a solution of its equations: a block that is not waiting was
\* last run from the state it has now, and what that run gave is no weaker than
\* the state of any successor, though a merge may weaken a state again later.
Stable ==
  lift # "limit" =>
    \A b \in DOMAIN blocks \cap DOMAIN states :
      b \notin queued /\ ~InProgress(b) =>
        /\ b \in DOMAIN out
        /\ from[b] = states[b]
        /\ \A s \in blocks[b].successors :
             s \in DOMAIN states /\ Below(states[s], out[b])

\* Every address is queued when it gets a state and each time the state loses a
\* binding, and never again: MAX_DATAFLOW_STEPS (200 000) is out of reach of any
\* graph that decode_x86_cfg returns (4096 blocks, two successors each, 16
\* registers), so no function is printed from an unfinished analysis.
StepBound ==
  steps <= Cardinality(DOMAIN states) * (Cardinality(Registers) + 1)

\* A state only ever loses bindings: what is printed for a register is never
\* replaced by another value that a later path brought (merge_state).
Weakening ==
  [][\A a \in DOMAIN states : a \in DOMAIN states' /\ Below(states'[a], states[a])]_vars
=============================================================================
