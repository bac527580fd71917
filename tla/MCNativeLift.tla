---------------------------- MODULE MCNativeLift ----------------------------
(***************************************************************************)
(* Instances of NativeLift: functions of one-byte instructions at address   *)
(* 1, over a result register and an argument register.                      *)
(***************************************************************************)
EXTENDS NativeLift

Write(op, dst, src, width) == [op |-> op, dst |-> dst, src |-> src, width |-> width]
Effect(op, dst, src) == Write(op, dst, src, "whole")
S == INSTANCE SymbolicState

Imm(n)  == [kind |-> "value", of |-> S!Value(n)]
From(r) == [kind |-> "register", of |-> r]

None == Effect("none", "rax", Imm(0))

Insn(control, targets, effects) ==
  [control : {control}, length : {1}, branch : targets, effect : effects]

Branches(targets) == Insn("conditional", targets, {None}) \cup Insn("return", {NoTarget}, {None})

Plain(effects) == Insn("next", {NoTarget}, effects)

\* Values that meet and grow, copies of whole registers and of low halves, a
\* call and a write to al.
MCInstructions ==
  UNION {Branches(1 .. 4),
         Insn("jump", {3}, {None}),
         Insn("call", {NoTarget}, {Effect("call", "rax", Imm(0))}),
         Plain({Effect("mov", "rcx", Imm(1)), Effect("operate", "rcx", Imm(1)),
                Effect("mov", "rax", From("rcx")), Write("mov", "rax", From("rcx"), "low"),
                Write("mov", "rcx", From("rax"), "signed"), Write("operate", "rcx", Imm(1), "low"),
                Effect("low_mov", "rax", Imm(1))})}

MCInstructionsUnsplit ==
  UNION {Branches(1 .. 3),
         Plain({Effect("mov", "rcx", Imm(1)), Effect("operate", "rcx", Imm(1))})}
=============================================================================
