---------------------------- MODULE MCNativeCfg ----------------------------
(***************************************************************************)
(* Instances of NativeCfg and ReadableText for TLC.  Every program over     *)
(* the given sizes and instructions is an initial state.  The length of a  *)
(* return or a jump is read by nothing (decoding stops there), so one       *)
(* length stands for all.                                                  *)
(***************************************************************************)
EXTENDS ReadableText

Insn(control, lengths, targets) ==
  [control : {control}, length : lengths, branch : targets]

\* Functions of up to four bytes at address 1: every in-range target, and one
\* past the end.
MCSizesFour == {0, 4}
MCInstructionsFour ==
  UNION { Insn("next", 1..2, {NoTarget}),
          Insn("return", {1}, {NoTarget}),
          Insn("jump", {1}, {NoTarget, 9} \cup 1..4),
          Insn("conditional", 1..2, 1..4) }

\* Every control class, targets before and past the function, up to four bytes.
MCSizesLimits == 0..4
MCInstructionsLimits ==
  UNION { Insn("next", 1..2, {NoTarget}),
          Insn("call", {2}, {1}),
          Insn("return", {1}, {NoTarget}),
          Insn("jump", {1}, {NoTarget, 0, 1, 4}),
          Insn("conditional", {1}, {1, 3, 4, 5}) }
=============================================================================
