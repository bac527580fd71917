------------------------------ MODULE NativeCfg ------------------------------
(***************************************************************************)
(* Recovery of the control-flow graph of one x86 function:                 *)
(* decode_x86_cfg of src/src/engines/native.rs.                            *)
(*                                                                         *)
(* A work list of block starts is popped in FIFO order.  From each start   *)
(* the decoder runs in a straight line until a transfer of control, the    *)
(* end of the function, an instruction that some block already holds, or   *)
(* the instruction limit; the successors of the block join the work list   *)
(* unless they were ever queued.                                           *)
(*                                                                         *)
(* The function's bytes are abstracted to `code': for every address of the *)
(* function the instruction the decoder returns there (its control class,  *)
(* its length, and the target of its near branch).  Addresses may overlap  *)
(* and disagree, as x86 code does when it is entered in mid-instruction.   *)
(***************************************************************************)
EXTENDS Integers, Sequences, FiniteSets

CONSTANTS
  FunctionStart,     \* `address', where the function begins
  FunctionSizes,     \* the values `bytes.len()' may take
  Instructions,      \* what the decoder may return at an address
  MaxBlocks,         \* MAX_BLOCKS_PER_FUNCTION
  MaxInstructions    \* MAX_INSTRUCTIONS_PER_FUNCTION

NoTarget == -1       \* the instruction has no near branch

\* The classes of control_kind, and those after which control does not simply
\* go on to the next instruction.
Controls  == {"next", "call", "conditional", "jump", "return"}
Transfers == {"conditional", "jump", "return"}

ASSUME FunctionAssumption ==
  /\ FunctionStart \in Nat
  /\ FunctionSizes \subseteq Nat

ASSUME InstructionAssumption ==
  \A i \in Instructions : /\ i.control \in Controls
                          /\ i.length \in Nat \ {0}
                          /\ i.branch \in Nat \cup {NoTarget}

ASSUME LimitAssumption ==
  /\ MaxBlocks \in Nat \ {0}
  /\ MaxInstructions \in Nat \ {0}

VARIABLES
  size,           \* bytes.len()
  code,           \* the instruction at each address
  pending,        \* VecDeque of block starts
  queued,         \* every address that was ever pending
  decoded,        \* decoded_addresses
  blocks,         \* the blocks, by address: `blocks.sort_by_key' at the end
  total,          \* instruction_total
  pc,             \* where the loops stand: "pop", "decode", "finish", "done"
  block_start, ip, instructions, successors   \* locals of one iteration

locals == <<block_start, ip, instructions, successors>>
vars   == <<size, code, pending, queued, decoded, blocks, total, pc, locals>>

-----------------------------------------------------------------------------
End       == FunctionStart + size
Addresses == FunctionStart .. End - 1

\* A decoder over `bytes' cannot return an instruction that runs past its end.
Programs(n) ==
  {p \in [FunctionStart .. FunctionStart + n - 1 -> Instructions] :
     \A a \in DOMAIN p : a + p[a].length <= FunctionStart + n}

NextIp(a) == a + code[a].length

\* Mutant: the target is not filtered by the function's range.
BranchTargetUnfiltered(a) == {code[a].branch} \ {NoTarget}

\* near_branch_target() is 0 both when there is no target and when it is 0;
\* `(target != 0).then_some(target)' reads it as "none" either way, and the
\* filter drops a target outside the function.
BranchTarget(a) ==
  LET near == IF code[a].branch = NoTarget THEN 0 ELSE code[a].branch
  IN  IF near = 0 THEN {} ELSE {near} \cap Addresses

\* Mutant: the fall-through of a conditional branch is forgotten.
PushedTakenOnly(a) ==
  IF code[a].control \in {"jump", "conditional"} THEN BranchTarget(a) ELSE {}

\* What the match on `control' pushes for the instruction at a.
Pushed(a) ==
  CASE code[a].control = "jump"        -> BranchTarget(a)
    [] code[a].control = "conditional" -> BranchTarget(a) \cup ({NextIp(a)} \cap Addresses)
    [] OTHER                           -> {}

\* Mutant: a conditional branch does not end its block.
EndsBlockJumps(a) == code[a].control \in {"jump", "return"}

\* The arms of the match on `control' that break the inner loop at once.
EndsBlock(a) == code[a].control \in {"return", "jump", "conditional"}

\* Mutant: only the first instruction of a block counts as decoded.
IsBlockStart(a) == a \in DOMAIN blocks

IsDecoded(a) == a \in decoded

\* Mutants: successors are queued unless decoded, or always.
Undecoded(S) == S \ decoded
AllOf(S)     == S

\* `if queued.insert(*successor)'
Unqueued(S) == S \ queued

\* Mutant: only the lowest successor is kept.
LowestOnly(S) == IF S = {} THEN <<>> ELSE <<CHOOSE a \in S : \A b \in S : a <= b>>

\* `successors.sort_unstable(); dedup()': a block has at most two successors.
Ascending(S) ==
  LET lo == CHOOSE a \in S : \A b \in S : a <= b
      hi == CHOOSE a \in S : \A b \in S : b <= a
  IN  CASE S = {}  -> <<>>
        [] lo = hi /\ S # {} -> <<lo>>
        [] OTHER   -> <<lo, hi>>

\* Mutant: one block too many.
LimitPassed == \/ Cardinality(DOMAIN blocks) > MaxBlocks
               \/ total >= MaxInstructions

LimitReached == \/ Cardinality(DOMAIN blocks) >= MaxBlocks
                \/ total >= MaxInstructions

-----------------------------------------------------------------------------
NoLocals ==
  /\ block_start' = FunctionStart
  /\ ip' = FunctionStart
  /\ instructions' = <<>>
  /\ successors' = {}

Init ==
  /\ size \in FunctionSizes
  /\ code \in Programs(size)
  /\ pending = <<FunctionStart>>
  /\ queued = {FunctionStart}
  /\ decoded = {}
  /\ blocks = <<>>
  /\ total = 0
  /\ pc = "pop"
  /\ block_start = FunctionStart
  /\ ip = FunctionStart
  /\ instructions = <<>>
  /\ successors = {}

\* `while let Some(block_start) = pending.pop_front()' finds the list empty.
WorkListEmpty ==
  /\ pc = "pop"
  /\ pending = <<>>
  /\ pc' = "done"
  /\ UNCHANGED <<size, code, pending, queued, decoded, blocks, total, locals>>

\* The popped start is dropped and the loop is left.
StopAtLimit ==
  /\ pc = "pop"
  /\ pending # <<>>
  /\ LimitReached
  /\ pending' = Tail(pending)
  /\ pc' = "done"
  /\ UNCHANGED <<size, code, queued, decoded, blocks, total, locals>>

\* `block_start >= end': `continue'.
SkipOutside ==
  /\ pc = "pop"
  /\ pending # <<>>
  /\ ~LimitReached
  /\ Head(pending) \notin Addresses
  /\ pending' = Tail(pending)
  /\ UNCHANGED <<size, code, queued, decoded, blocks, total, pc, locals>>

BeginBlock ==
  /\ pc = "pop"
  /\ pending # <<>>
  /\ ~LimitReached
  /\ Head(pending) \in Addresses
  /\ pending' = Tail(pending)
  /\ block_start' = Head(pending)
  /\ ip' = Head(pending)
  /\ instructions' = <<>>
  /\ successors' = {}
  /\ pc' = "decode"
  /\ UNCHANGED <<size, code, queued, decoded, blocks, total>>

\* The condition of the inner `while' is false.
StopDecoding ==
  /\ pc = "decode"
  /\ ip >= End \/ total >= MaxInstructions
  /\ pc' = "finish"
  /\ UNCHANGED <<size, code, pending, queued, decoded, blocks, total, locals>>

\* `!decoded_addresses.insert(ip)': the block falls into another one.
JoinDecoded ==
  /\ pc = "decode"
  /\ ip < End
  /\ total < MaxInstructions
  /\ IsDecoded(ip)
  /\ successors' = successors \cup {ip}
  /\ pc' = "finish"
  /\ UNCHANGED <<size, code, pending, queued, decoded, blocks, total,
                 block_start, ip, instructions>>

DecodeInstruction ==
  /\ pc = "decode"
  /\ ip < End
  /\ total < MaxInstructions
  /\ ~IsDecoded(ip)
  /\ decoded' = decoded \cup {ip}
  /\ total' = total + 1
  /\ instructions' = Append(instructions, ip)
  /\ successors' = successors \cup Pushed(ip)
  /\ ip' = NextIp(ip)
  /\ pc' = IF EndsBlock(ip) \/ NextIp(ip) >= End
           THEN "finish" ELSE "decode"
  /\ UNCHANGED <<size, code, pending, queued, blocks, block_start>>

FinishBlock ==
  /\ pc = "finish"
  /\ queued' = queued \cup successors
  /\ pending' = pending \o Ascending(Unqueued(successors))
  /\ blocks' = IF instructions = <<>> THEN blocks
               ELSE [b \in DOMAIN blocks \cup {block_start} |->
                      IF b = block_start
                      THEN [instructions |-> instructions, successors |-> successors]
                      ELSE blocks[b]]
  /\ pc' = "pop"
  /\ NoLocals
  /\ UNCHANGED <<size, code, decoded, total>>

Next ==
  \/ WorkListEmpty
  \/ StopAtLimit
  \/ SkipOutside
  \/ BeginBlock
  \/ StopDecoding
  \/ JoinDecoded
  \/ DecodeInstruction
  \/ FinishBlock

Spec     == Init /\ [][Next]_vars
FairSpec == Spec /\ WF_vars(Next)

-----------------------------------------------------------------------------
(***************************************************************************)
(* What the graph should say, written without the algorithm.               *)
(***************************************************************************)

\* Where control really goes from a: a target at address 0 is a target.
Flow(a) ==
  LET taken == {code[a].branch} \cap Addresses
      next  == {NextIp(a)} \cap Addresses
  IN  CASE code[a].control = "return"      -> {}
        [] code[a].control = "jump"        -> taken
        [] code[a].control = "conditional" -> taken \cup next
        [] OTHER                           -> next

Closed(S) == /\ FunctionStart \in Addresses => FunctionStart \in S
             /\ \A a \in S : Flow(a) \subseteq S

Elements(s) == {s[i] : i \in 1 .. Len(s)}
Held(b)     == Elements(blocks[b].instructions)
LastOf(b)   == blocks[b].instructions[Len(blocks[b].instructions)]

\* Every branch leads to the start of a block.
Split == \A b \in DOMAIN blocks : blocks[b].successors \subseteq DOMAIN blocks

\* The block was cut short by MAX_INSTRUCTIONS_PER_FUNCTION.
Truncated(b) == /\ total >= MaxInstructions
                /\ code[LastOf(b)].control \notin Transfers
                /\ blocks[b].successors = {}

\* No block was cut short by the instruction limit, and so lost its edge.
Whole == \A b \in DOMAIN blocks : ~Truncated(b)

-----------------------------------------------------------------------------
(***************************************************************************)
(* Properties.                                                             *)
(***************************************************************************)

\* The type invariant of the work list, the blocks and the locals of
\* decode_x86_cfg.
TypeOK ==
  /\ size \in FunctionSizes
  /\ code \in Programs(size)
  /\ pending \in Seq(queued)
  /\ queued \subseteq Addresses \cup {FunctionStart}
  /\ decoded \subseteq Addresses
  /\ DOMAIN blocks \subseteq Addresses
  /\ \A b \in DOMAIN blocks :
       /\ blocks[b].instructions \in Seq(Addresses)
       /\ blocks[b].instructions # <<>>
       /\ blocks[b].successors \subseteq Addresses
  /\ total \in 0 .. MaxInstructions
  /\ pc \in {"pop", "decode", "finish", "done"}
  /\ block_start \in Addresses \cup {FunctionStart}
  /\ ip \in FunctionStart .. End
  /\ instructions \in Seq(Addresses)
  /\ successors \subseteq Addresses

\* Between two iterations every decoded instruction is held by exactly one
\* block: no instruction is printed twice or lost, however the branches of
\* the function overlap (decoded_addresses is shared by all blocks).
BlocksPartitionDecoded ==
  /\ \A b, c \in DOMAIN blocks : b # c => Held(b) \cap Held(c) = {}
  /\ pc \in {"pop", "done"} => decoded = UNION {Held(b) : b \in DOMAIN blocks}

\* A block begins at its address and runs in a straight line: control reaches
\* each of its instructions from the one before, and leaves it only at the end.
StraightLine ==
  \A b \in DOMAIN blocks :
    LET s == blocks[b].instructions
    IN  /\ s[1] = b
        /\ \A i \in 1 .. Len(s) - 1 : /\ code[s[i]].control \notin Transfers
                                      /\ s[i + 1] = NextIp(s[i])

\* The successors of a finished block are exactly where control can go from
\* its last instruction, unless the instruction limit cut the block short.
\* (Not for a function at address 0: a branch to 0 passes for one without target.)
EdgesExact ==
  \A b \in DOMAIN blocks :
    blocks[b].successors = Flow(LastOf(b)) \/ Truncated(b)

\* When the work list runs out below the limits, the instructions decoded are
\* the least set that holds the entry and is closed under control flow: no
\* reachable instruction is missed, and none is swept up linearly.
ExactlyReachable ==
  pc = "done" /\ ~LimitReached =>
    /\ Closed(decoded)
    /\ \A S \in SUBSET Addresses : Closed(S) => decoded \subseteq S

\* The limits bound the work whatever the bytes are: at most
\* MAX_BLOCKS_PER_FUNCTION blocks and MAX_INSTRUCTIONS_PER_FUNCTION
\* instructions, and the counter that enforces it counts distinct addresses.
LimitsHold ==
  /\ Cardinality(DOMAIN blocks) <= MaxBlocks
  /\ total <= MaxInstructions
  /\ total = Cardinality(decoded)

\* The work list holds a start once, and never one that has a block or is being
\* decoded: `queued' and `decoded_addresses' between them keep the list sorted at
\* the end free of two blocks with one address.
StartsOnce ==
  /\ \A i, j \in 1 .. Len(pending) : pending[i] = pending[j] => i = j
  /\ Elements(pending) \cap DOMAIN blocks = {}
  /\ pc \in {"decode", "finish"} =>
       block_start \notin DOMAIN blocks \cup Elements(pending)

\* A search that leaves its loop at a limit is cut; one whose list ran out is finished.
Progress == IF pc # "done" THEN "searching" ELSE IF LimitReached THEN "cut" ELSE "finished"

FlowSearch == INSTANCE Search WITH
  graph   <- [a \in Addresses |-> Flow(a)],
  roots   <- {FunctionStart} \cap Addresses,
  visited <- decoded,
  status  <- Progress

\* decode_x86_cfg implements a search along the flow of control: an instruction is
\* decoded at most once and only when control reaches it from one decoded before, and
\* unless a limit is reached the loop is left only when nothing reachable is missing.
SearchesFlow == FlowSearch!Spec

\* Every function is finished, whatever its branches: each start is queued
\* once and each address decoded once, so the loops run out.
Termination == <>(pc = "done")
=============================================================================
