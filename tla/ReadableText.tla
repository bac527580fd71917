---------------------------- MODULE ReadableText ----------------------------
(***************************************************************************)
(* The text of a recovered function: the order of its blocks, its labels,  *)
(* its branches and its loop headers, as enhance_function of               *)
(* src/src/engines/native_v050/lift.rs and the renderers of render.rs      *)
(* leave them.                                                             *)
(*                                                                         *)
(* The text is read as the program it looks like: blocks in the order of   *)
(* their addresses, each under its label, every statement going on to the  *)
(* one below it unless it returns or goes to a label.                      *)
(***************************************************************************)
EXTENDS NativeCfg

\* `blocks[index + 1].address', after blocks.sort_by_key.
NextBlock(b) == {c \in DOMAIN blocks : c > b /\ \A d \in DOMAIN blocks : d > b => c <= d}

\* `raw_target': the target of a branch, in the function or not.
RawTarget(a) == {code[a].branch} \ {NoTarget, 0}

\* Mutant: every jump forward is left out.
JumpsForward(b) ==
  /\ code[LastOf(b)].control = "jump"
  /\ \E c \in RawTarget(LastOf(b)) : c > b

\* "natural fallthrough": a jump to the next block in the text is left out.
FallsThrough(b) ==
  /\ code[LastOf(b)].control = "jump"
  /\ RawTarget(LastOf(b)) # {}
  /\ RawTarget(LastOf(b)) = NextBlock(b)

\* `goto L_x' goes to the block labelled so, if there is one.
Label(a) == RawTarget(a) \cap DOMAIN blocks

\* What stands below the i-th statement of a block.
Below(b, i) ==
  IF i < Len(blocks[b].instructions) THEN {blocks[b].instructions[i + 1]} ELSE NextBlock(b)

\* Where the text goes from the i-th statement of a block.
TextFlow(b, i) ==
  LET a == blocks[b].instructions[i]
  IN  CASE code[a].control = "return"      -> {}
        [] code[a].control = "jump"        -> IF FallsThrough(b) THEN Below(b, i) ELSE Label(a)
        [] code[a].control = "conditional" -> Label(a) \cup Below(b, i)
        [] OTHER                           -> Below(b, i)

\* Mutant: a block that branches to itself is no loop.
EarlierSuccessors(b) == {s \in blocks[b].successors : s < b}

LoopsBackTo(b) == {s \in blocks[b].successors : s <= b}

\* The role "loop-header" of a block.
LoopHeaders == UNION {LoopsBackTo(b) : b \in DOMAIN blocks}

-----------------------------------------------------------------------------
\* No block starts within an instruction.
Apart == \A a \in decoded, c \in DOMAIN blocks : ~(a < c /\ c < NextIp(a))

\* Read as a program, the text goes where the code goes: though nothing but the order
\* of the blocks says where a block that ends without a jump goes on, and jumps are
\* taken out, no statement is followed by one that control does not reach from it.
\* (Below the limits, in code that does not overlap and enters no block in its middle.)
TextFollowsCode ==
  pc = "done" /\ ~LimitReached /\ Split /\ Apart =>
    \A b \in DOMAIN blocks : \A i \in 1 .. Len(blocks[b].instructions) :
      TextFlow(b, i) = Flow(blocks[b].instructions[i])

\* Control can stay among the instructions of S.
Lasting(S) == S # {} /\ \A a \in S : Flow(a) \cap S # {}

\* Within S the end of a block goes back into the middle of a block: its own, or one
\* before it.
BackIntoMiddle(S) ==
  \E b, c \in DOMAIN blocks :
    /\ c <= b
    /\ LastOf(b) \in S
    /\ Flow(LastOf(b)) \cap S \cap (Held(c) \ {c}) # {}

\* A loop shows: instructions among which control can stay include the first of a block
\* that is marked as a loop header, though the marks come from the order of the blocks
\* and the edges between them, and never from the instructions.  (Unless the loop is
\* closed by going back into the middle of a block, which no mark can stand at.)
LoopsMarked ==
  pc = "done" /\ Whole =>
    \A S \in SUBSET decoded :
      Lasting(S) => S \cap LoopHeaders # {} \/ BackIntoMiddle(S)
=============================================================================
