------------------------------- MODULE MCLift -------------------------------
(***************************************************************************)
(* An instance of Lift: every graph of three blocks, with a branch target   *)
(* that no block starts at, over two registers.                             *)
(***************************************************************************)
EXTENDS Lift

Effect(op, dst, src) == [op |-> op, dst |-> dst, src |-> src]
Imm(n)  == [kind |-> "value", of |-> Value(n)]
From(r) == [kind |-> "register", of |-> r]

\* One is set to a value, one grows in a loop, a copy, a call.
MCEffects == {Effect("mov", "rcx", Imm(1)),
              Effect("operate", "rcx", Imm(1)),
              Effect("mov", "rax", From("rcx")),
              Effect("call", "rax", Imm(0))}

\* At most two successors, as decode_x86_cfg finds them; 4 is no block.
MCSuccessors == {S \in SUBSET (1 .. 4) : Cardinality(S) <= 2}

MCFunctions ==
  {[blocks |-> [b \in 1 .. 3 |-> [instructions |-> <<b>>, successors |-> succ[b]]],
    effect |-> e] : succ \in [1 .. 3 -> MCSuccessors], e \in [1 .. 3 -> MCEffects]}
  \cup {[blocks |-> << >>, effect |-> << >>]}
=============================================================================
