------------------------------ MODULE Engines ------------------------------
(***************************************************************************)
(* decompile (src/src/decompile.rs) gives a file to one engine, by what    *)
(* detect found.  A behaviour is the work of one part of that: the detector, *)
(* the engine of a format over one of its inputs, or the discovery of      *)
(* functions and import slots in a native image.  Every reader has the     *)
(* state of Readers.                                                       *)
(***************************************************************************)
EXTENDS FunctionTable, Readers

CONSTANTS
  Files,                                       \* Detection
  Objects, MaxNesting,                         \* Marshal
  Chunks, MaxDepth,                            \* LuaChunk
  LinkedImages, MaxDescriptors, MaxThunks,     \* Imports
  Bodies,                                      \* Disassembly
  Bits, WordBits, MaxBytes, Numbers,           \* Encodings
  Layouts, MaxStrings                          \* References

VARIABLE engine

reader == <<input, pos, stack, out, status>>
all    == <<engine, reader, vars>>

Detect   == INSTANCE Detection
Python   == INSTANCE Marshal
Lua      == INSTANCE LuaChunk
Listing  == INSTANCE Disassembly
Bytes    == INSTANCE Encodings
Pe       == INSTANCE Imports
Memory   == INSTANCE References

\* What the theorems take the other inputs to be.
ASSUME PartsAssumption == Detect!FilesAssumption /\ Listing!BodiesAssumption

NoFunctions ==
  /\ image = <<>> /\ symbols = <<>> /\ pdata = <<>> /\ table = <<>>
  /\ functions = <<>> /\ known = {} /\ queue = <<>> /\ phase = "symbols"

NoReader == input = <<>> /\ pos = 0 /\ stack = <<>> /\ out = <<>> /\ status = "idle"

AnyInit ==
  \/ /\ NoFunctions
     /\ \/ engine = "detect"      /\ Detect!Init
        \/ engine = "jvm-class"   /\ Class!Init
        \/ engine = "dex"         /\ DexFile!Init
        \/ engine = "python"      /\ Python!Init
        \/ engine = "dotnet"      /\ DotNet!Init
        \/ engine = "lua"         /\ Lua!Init
        \/ engine = "archive"     /\ Jar!Init
        \/ engine = "disassembly" /\ Listing!Init
        \/ engine = "reader"      /\ Bytes!Init
        \/ engine = "imports"     /\ Pe!Init
        \/ engine = "references"  /\ Memory!Init
  \/ engine = "functions" /\ Init /\ NoReader

Read ==
  /\ \/ engine = "detect"      /\ Detect!Next
     \/ engine = "jvm-class"   /\ Class!Next
     \/ engine = "dex"         /\ DexFile!Next
     \/ engine = "python"      /\ Python!Next
     \/ engine = "dotnet"      /\ DotNet!Next
     \/ engine = "lua"         /\ Lua!Next
     \/ engine = "archive"     /\ Jar!Next
     \/ engine = "disassembly" /\ Listing!Next
     \/ engine = "reader"      /\ Bytes!Next
     \/ engine = "imports"     /\ Pe!Next
     \/ engine = "references"  /\ Memory!Next
  /\ UNCHANGED <<engine, vars>>

Discover == engine = "functions" /\ Next /\ UNCHANGED <<engine, reader>>

AnyNext == Read \/ Discover

AnySpec == AnyInit /\ [][AnyNext]_all

-----------------------------------------------------------------------------
\* A file as its tool writes it is sent to the engine for that tool (detect).
SentToItsEngine == engine = "detect" => Detect!SentToItsEngine

\* A class file prints the name, the interfaces and the members that javac wrote,
\* each method with its own code, whatever constants and attributes lie between
\* them; or it is rejected (decompile_class).
ClassReadsBack == engine = "jvm-class" => Class!ClassReadsBack

\* Each class of a DEX is printed with its own methods, from numbers stored as
\* differences that start again in each list (parse_class_data).
ClassesReadBack == engine = "dex" => DexFile!ClassesReadBack

\* A code object prints the constants and names that CPython marshalled, shared
\* objects included, unless flagged objects nest (Marshal of pyc.rs).
MarshalReadsBack == engine = "python" => Python!ReadsBack

\* The same of every code object, those whose flagged objects nest included.
ReferencesResolve == engine = "python" => Python!ReferencesResolve

\* Each type of an assembly is printed with its own methods, however wide the
\* columns of the tables before it are (parse_tables).
TypesReadBack == engine = "dotnet" => DotNet!TypesReadBack

\* Every prototype of a Lua chunk is printed with its code, in the order of the
\* chunk, whatever the sizes its header announces (parse_lua51_function).
PrototypesReadBack == engine = "lua" => Lua!PrototypesReadBack

\* An archive is decompiled as a whole or refused as a whole, and no class of it is
\* written over another one (decompile_jar, decompile_apk).
WholeOrRefused == engine = "archive" => Jar!WholeOrRefused

\* A listing begins every line where the assembler began an instruction
\* (code_text, disassemble_code, disassemble_il, render_code).
InstructionsInStep == engine = "disassembly" => Listing!InstructionsInStep

\* A number is read as it was written, or rejected (read_uleb, Reader, compressed_uint).
NumbersReadBack == engine = "reader" => Bytes!NumbersReadBack

\* Each import slot carries the name the loader binds it to (pe::imports).
SlotsNamed == engine = "imports" => Pe!SlotsNamed

\* An operand in memory is printed as the import slot or the text that is laid out at its
\* address, although either scan may read it for something else (reference_for_instruction).
OperandsNamed == engine = "references" => Memory!OperandsNamed
=============================================================================
