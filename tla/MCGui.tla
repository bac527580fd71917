------------------------------- MODULE MCGui -------------------------------
(***************************************************************************)
(* Instances of Gui: two clicks on Decompile.                              *)
(***************************************************************************)
EXTENDS Gui, MCFiles

MCDisks   == {Disk([p \in {Jar, Exe} |-> IF p = Jar THEN GoodJar ELSE GoodExe])}
MCImages  == {BadExe}
MCOne     == {Exe}
MCChosen  == {Exe}
=============================================================================
