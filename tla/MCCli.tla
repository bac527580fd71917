------------------------------- MODULE MCCli -------------------------------
(***************************************************************************)
(* Instances of Cli.                                                       *)
(***************************************************************************)
EXTENDS Cli, MCFiles

CONSTANTS r1, r2

MCOutputs == {Chosen}

MCDisks == {Disk([p \in {Jar, Exe} |-> IF p = Jar THEN j ELSE e] @@ o) :
              j \in {GoodJar, ClashJar, EvilJar}, e \in {GoodExe, BadExe},
              o \in {OldTree, Holding(ExeOut, Text("native", "c", Torn, 1))}}

\* What the user may write over an input.
MCImages == {BadExe}

TwoRuns == Permutations({r1, r2})
=============================================================================
