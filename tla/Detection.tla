----------------------------- MODULE Detection -----------------------------
(***************************************************************************)
(* Which engine a file is given to: detect, pe_has_clr and native_language *)
(* of src/src/detect.rs.                                                   *)
(*                                                                         *)
(* A file is [tool, ext, head, pe, clr, metadata, marks]: what wrote it, its *)
(* extension, the magic number at its head, whether its PE headers are of a *)
(* known kind, with a CLR directory, and which texts its first part holds.  *)
(***************************************************************************)
EXTENDS Integers, Sequences, FiniteSets

CONSTANT Files

VARIABLES input, pos, stack, out, status

vars == <<input, pos, stack, out, status>>

Init ==
  /\ input \in Files
  /\ pos = 1 /\ stack = <<>> /\ out = <<>>
  /\ status = "detecting"

SourceExtensions == {"js", "py", "lua", "java", "rs", "c"}
RustMarks  == {"rust_begin_unwind", "rust_eh_personality", "core::panicking", "std::panicking", "alloc::"}

\* pe_has_clr: the optional header has room for fifteen directories.
HasClr(f) == f.head = "MZ" /\ f.pe /\ f.directories >= 15 /\ f.clr

\* native_language; two marks of Rust, as one may come from a library.
GoMarked(f)    == "buildinf" \in f.marks \/ {"runtime.main", "runtime.morestack"} \subseteq f.marks
RustMarked(f)  == Cardinality(f.marks \cap RustMarks) >= 2
SwiftMarked(f) == "swift_beginAccess" \in f.marks \/ {"swift_release", "swift_retain"} \subseteq f.marks

LanguageOf(f) ==
  IF GoMarked(f) THEN "go"
  ELSE IF RustMarked(f) THEN "rust"
  ELSE IF SwiftMarked(f) THEN "swift" ELSE "native"

\* The rules, the first of which to hold decides.
Rules(f) ==
  <<[kind |-> "jvm-class", holds |-> f.ext = "class" /\ f.head = "cafebabe"],
    [kind |-> "jvm-jar",   holds |-> f.ext = "jar" /\ f.head = "PK"],
    [kind |-> "apk",       holds |-> f.ext = "apk" /\ f.head = "PK"],
    [kind |-> "dex",       holds |-> f.head = "dex" \/ f.ext = "dex"],
    [kind |-> "wasm",      holds |-> f.head = "asm"],
    [kind |-> "lua",       holds |-> f.head = "Lua" \/ f.ext = "luac"],
    [kind |-> "python",    holds |-> f.ext = "pyc"],
    [kind |-> "dotnet",    holds |-> f.head = "MZ" /\ (HasClr(f) \/ f.metadata)],
    [kind |-> "native",    holds |-> f.head \in {"MZ", "ELF", "feedface", "cafebabe"}],
    [kind |-> "source",    holds |-> f.ext \in SourceExtensions],
    [kind |-> "unknown",   holds |-> TRUE]>>

\* Mutant: a number at the head is all that counts.
MagicFirst(f) == [i \in 1 .. 11 |-> Rules(f)[IF i = 1 THEN 9 ELSE IF i <= 9 THEN i - 1 ELSE i]]

Ordered(f) == Rules(f)

Rule == Ordered(input)[pos]

NextRule ==
  /\ status = "detecting"
  /\ ~Rule.holds
  /\ pos' = pos + 1
  /\ UNCHANGED <<input, stack, out, status>>

Decide ==
  /\ status = "detecting"
  /\ Rule.holds
  /\ out' = <<Rule.kind, IF Rule.kind = "native" THEN LanguageOf(input) ELSE Rule.kind>>
  /\ status' = "done"
  /\ UNCHANGED <<input, pos, stack>>

Next == NextRule \/ Decide

Spec == Init /\ [][Next]_vars

-----------------------------------------------------------------------------
\* The magic number at the head of what each tool writes; what has none is "".
HeadsOf(tool) ==
  CASE tool = "jvm-class" -> {"cafebabe"}
    [] tool \in {"jvm-jar", "apk"} -> {"PK"}
    [] tool = "dex"  -> {"dex"}
    [] tool = "wasm" -> {"asm"}
    [] tool = "lua"  -> {"Lua"}
    [] tool \in {"python", "editor"} -> {""}
    [] tool = "dotnet" -> {"MZ"}
    [] tool \in {"go", "rust", "swift", "cc"} -> {"MZ", "ELF", "feedface", "cafebabe"}

\* Files as the tools write them.  A compiler leaves its own marks and not those of
\* another; no universal binary is named like a class, no source like bytecode.
FilesAssumption ==
  \A f \in Files :
    /\ f.tool \in {"jvm-class", "jvm-jar", "apk", "dex", "wasm", "lua", "python", "editor",
                   "dotnet", "go", "rust", "swift", "cc"}
    /\ f.head \in HeadsOf(f.tool)
    /\ f.tool = "editor" => f.ext \notin {"dex", "luac", "pyc"}
    /\ f.tool = "dotnet" => HasClr(f) \/ f.metadata
    /\ f.tool \in {"go", "rust", "swift", "cc"} =>
         /\ ~f.clr /\ ~f.metadata
         /\ f.head = "cafebabe" => f.ext # "class"
         /\ GoMarked(f)    <=> f.tool = "go"
         /\ RustMarked(f)  => f.tool \in {"go", "rust"}
         /\ f.tool = "rust"  => RustMarked(f)
         /\ SwiftMarked(f) => f.tool \in {"go", "rust", "swift"}
         /\ f.tool = "swift" => SwiftMarked(f)

\* A file with the extension its tool gives it is sent to the engine for that tool,
\* and one whose format has a magic number of its own is so under every name that no
\* engine claims by its extension alone; native code is told by its compiler's marks.
\* (No file of `cc' holds the text "BSJB", which would make an assembly of it.)
SentToItsEngine ==
  status = "done" =>
    CASE input.tool \in {"go", "rust", "swift", "cc"} /\ input.ext \notin {"dex", "luac", "pyc"} ->
           out = <<"native", IF input.tool = "cc" THEN "native" ELSE input.tool>>
      [] input.tool \in {"dotnet", "lua", "wasm"} /\ input.ext \notin {"dex", "luac", "pyc"} -> out[1] = input.tool
      [] \/ input.tool = "dex"
         \/ <<input.tool, input.ext>> \in {<<"python", "pyc">>, <<"lua", "luac">>, <<"jvm-class", "class">>,
                                          <<"jvm-jar", "jar">>, <<"apk", "apk">>}
           -> out[1] = input.tool
      [] input.tool = "editor" -> out[1] = IF input.ext \in SourceExtensions THEN "source" ELSE "unknown"
      [] OTHER -> TRUE
=============================================================================
