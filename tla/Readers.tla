------------------------------ MODULE Readers ------------------------------
(***************************************************************************)
(* The readers of class files, DEX files, assemblies and the archives that *)
(* hold them, each an instance over one state: what is read, how far, the  *)
(* open constructs, what was made so far, how it ended.  Engines adds the  *)
(* other readers; these are apart so that a proof about one of them does   *)
(* not carry the definitions of all.                                       *)
(***************************************************************************)
EXTENDS Integers, SequencesExt

CONSTANTS
  Classes,                                     \* ClassFile
  Programs, MaxEntries,                        \* Dex
  Assemblies, Wide,                            \* Metadata
  Archives, MaxMembers, MaxMember, MaxTotal    \* Archive

VARIABLES input, pos, stack, out, status

Class    == INSTANCE ClassFile
DexFile  == INSTANCE Dex
DotNet   == INSTANCE Metadata
Jar      == INSTANCE Archive

\* What the theorems about these readers take their inputs to be.
ASSUME InputAssumption ==
  /\ Class!ClassesAssumption /\ DexFile!ProgramsAssumption
  /\ DotNet!AssembliesAssumption /\ Jar!ArchivesAssumption
=============================================================================
