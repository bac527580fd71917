----------------------------- MODULE MCEngines -----------------------------
(***************************************************************************)
(* Inputs for Engines: files as their tools write them, whole and cut off, *)
(* at each limit, and with whatever a reader has to step over.             *)
(***************************************************************************)
EXTENDS Engines, SequencesExt

-----------------------------------------------------------------------------
\* Files by the tool that wrote them.
FilesOf(tool, head, exts, directories, marks) ==
  [tool : {tool}, head : {head}, ext : exts, pe : {head = "MZ"}, directories : directories,
   clr : {tool = "dotnet"}, metadata : {FALSE}, marks : marks]
AnyExt == {"", "exe", "so", "class", "jar", "dex", "luac", "pyc", "py"}
MCDetected ==
  FilesOf("jvm-class", "cafebabe", {"class", ""}, {0}, {{}}) \cup FilesOf("jvm-jar", "PK", {"jar", "war"}, {0}, {{}})
  \cup FilesOf("apk", "PK", {"apk"}, {0}, {{}}) \cup FilesOf("dex", "dex", AnyExt, {0}, {{}})
  \cup FilesOf("wasm", "asm", AnyExt, {0}, {{}}) \cup FilesOf("lua", "Lua", AnyExt, {0}, {{}})
  \cup FilesOf("python", "", {"pyc", "pyo"}, {0}, {{}}) \cup FilesOf("editor", "", {"py", "c", "txt", ""}, {0}, {{}})
  \cup FilesOf("dotnet", "MZ", AnyExt, {16}, {{}, {"core::panicking"}})
  \cup {[f EXCEPT !.clr = FALSE, !.metadata = TRUE] : f \in FilesOf("dotnet", "MZ", AnyExt, {14, 16}, {{}})}
  \cup UNION {FilesOf("cc", h, AnyExt, {14, 16}, {{}, {"alloc::"}, {"swift_retain"}}) : h \in {"MZ", "ELF", "feedface"}}
  \cup FilesOf("cc", "cafebabe", {"", "dylib"}, {0}, {{}})
  \cup UNION {FilesOf("go", h, AnyExt, {16}, {{"buildinf"}, {"runtime.main", "runtime.morestack", "alloc::"}}) : h \in {"MZ", "ELF"}}
  \cup UNION {FilesOf("rust", h, AnyExt, {16}, {{"core::panicking", "alloc::"}}) : h \in {"MZ", "ELF"}}
  \cup FilesOf("swift", "feedface", AnyExt, {0}, {{"swift_release", "swift_retain"}})

-----------------------------------------------------------------------------
\* Classes: long constants in every place of the pool; code with neighbours, handlers, slack.
Utf8Entry(t) == [kind |-> "utf8", text |-> t]
EntryOf(kind)     == [kind |-> kind, text |-> kind]

PoolNames   == <<Utf8Entry("A"), [kind |-> "class", text |-> "A"], Utf8Entry("I"), [kind |-> "class", text |-> "I"],
             Utf8Entry("Code"), Utf8Entry("f"), Utf8Entry("g"), Utf8Entry("m")>>

MCPools == {<<x>> \o PoolNames : x \in {EntryOf("wide"), EntryOf("other"), EntryOf("number")}}
           \cup {SubSeq(PoolNames, 1, 4) \o <<x, y>> \o SubSeq(PoolNames, 5, 8) :
                   x \in {EntryOf("wide"), EntryOf("unknown")}, y \in {EntryOf("wide"), EntryOf("other")}}
           \cup {PoolNames \o <<EntryOf("wide")>>}

CodeOf(body, handlers, inner, slack, short) ==
  [name |-> "Code", code |-> body, handlers |-> handlers, inner |-> inner, slack |-> slack, short |-> short]
OtherAttribute(slack) == [name |-> "f", code |-> <<>>, handlers |-> 0, inner |-> 0, slack |-> slack, short |-> FALSE]

MCAttributes ==
  {<<>>, <<OtherAttribute(2)>>}
  \cup {<<CodeOf(<<3, 7>>, h, n, s, FALSE)>> : h \in 0 .. 1, n \in 0 .. 2, s \in 0 .. 1}
  \cup {<<CodeOf(<<3, 7>>, h, n, 0, TRUE)>> : h \in 0 .. 1, n \in 0 .. 1}
  \cup {<<OtherAttribute(1), CodeOf(<<5>>, 1, 0, 0, FALSE), OtherAttribute(0)>>}

MethodOf(name, attributes) == [name |-> name, attributes |-> attributes]

MCClasses ==
  [pool : MCPools, this : {PoolNames[2]}, interfaces : {<<>>, <<"I">>},
   fields : {<<>>, <<MethodOf("f", <<OtherAttribute(2), OtherAttribute(0)>>), MethodOf("g", <<>>)>>},
   methods : {<<MethodOf("m", a), MethodOf("g", b)>> : a \in MCAttributes, b \in {<<>>, <<CodeOf(<<4>>, 0, 0, 0, FALSE)>>}},
   torn : {0}, cut : {0, 1}]
  \cup [pool : {PoolNames \o <<EntryOf("wide")>>}, this : {PoolNames[1], PoolNames[2]}, interfaces : {<<>>}, fields : {<<>>},
        methods : {<<>>}, torn : 0 .. 1, cut : 0 .. 12]

-----------------------------------------------------------------------------
\* Five methods of three classes; the class of the last one is not defined here.
Owners == <<"A", "A", "B", "B", "C">>

Lists(numbers) == {SetToSortSeq(S, <) : S \in SUBSET numbers}
ClassesOf(type, direct, virtual) ==
  [type : {type}, fields : 0 .. 2, direct : Lists(direct), virtual : Lists(virtual)]

MCPrograms ==
  [types : {<<"A", "B", "C">>}, methods : {Owners}, cut : BOOLEAN, outside : {FALSE},
   classes : {<<a, b>> : a \in ClassesOf("A", {0, 3}, {0, 1, 4}), b \in ClassesOf("B", {2}, {2, 3, 9})}]
  \cup [types : {<<"A", "B", "C", "D", "E", "F", "G">>, <<"A">>}, methods : {Owners}, cut : {FALSE},
        outside : BOOLEAN, classes : {<<>>}]
  \cup [types : {<<"A">>}, methods : {Owners}, cut : {FALSE}, outside : {FALSE},
        classes : {<<[type |-> "A", fields |-> 7, direct |-> <<>>, virtual |-> <<>>]>>}]

-----------------------------------------------------------------------------
\* Code objects for Marshal: constants that share, nest and refer.
PyObject(tag, flag, name, parts) == [tag |-> tag, flag |-> flag, name |-> name, parts |-> parts]
PyLeaf(tag, flag)  == PyObject(tag, flag, "x", <<>>)
PyRef(name)        == PyObject("ref", FALSE, name, <<>>)
PyTuple(flag, s)   == PyObject("tuple", flag, "tuple", s)
PyNumber(name)     == PyObject("number", FALSE, name, <<>>)
PyEmpty            == PyTuple(FALSE, <<>>)

\* A code object with these constants, this file name and this flag.
PyCode(modern, flag, consts, file) ==
  LET head == <<PyLeaf("bytes", FALSE), consts, PyEmpty, PyEmpty>>
      tail == <<file, PyObject("string", FALSE, "name", <<>>)>>
  IN  PyObject("code", flag, "words",
             IF modern THEN head \o <<PyNumber("kinds")>> \o tail
                            \o <<PyObject("string", FALSE, "qualname", <<>>), PyNumber("lines"), PyNumber("handlers")>>
             ELSE head \o <<PyEmpty, PyEmpty>> \o tail \o <<PyNumber("lnotab")>>)

PyShared == PyObject("string", TRUE, "shared", <<>>)
PyTwo    == PyObject("number", TRUE, "two", <<>>)

PyConstants(modern) ==
  {<<>>, <<PyNumber("1")>>, <<PyShared, PyRef("shared")>>, <<PyShared, PyTwo, PyRef("two"), PyRef("shared")>>,
   <<PyTuple(TRUE, <<PyNumber("1"), PyNumber("2")>>), PyRef("tuple")>>,
   <<PyTuple(TRUE, <<PyShared>>), PyRef("tuple"), PyRef("shared")>>,
   <<PyTuple(FALSE, <<PyTuple(FALSE, <<PyNumber("1")>>), PyEmpty>>), PyNumber("2")>>,
   <<PyTuple(FALSE, <<PyTuple(FALSE, <<PyTuple(FALSE, <<PyNumber("1")>>)>>)>>)>>,
   <<PyObject("dict", FALSE, "none", <<>>), PyObject("dict", TRUE, "dict", <<PyNumber("1"), PyNumber("2")>>), PyRef("dict")>>,
   <<PyObject("dict", FALSE, "dict", <<PyShared, PyTuple(FALSE, <<PyRef("shared")>>)>>), PyRef("shared")>>,
   <<PyLeaf("null", FALSE), PyObject("complex", FALSE, "1j", <<>>)>>,
   <<PyShared, PyCode(modern, FALSE, PyTuple(FALSE, <<PyRef("shared"), PyTwo>>), PyRef("shared")), PyRef("two")>>}

MCObjects ==
  UNION {{[modern |-> m, root |-> PyCode(m, f, PyTuple(FALSE, c), file), whole |-> w] :
            w \in BOOLEAN, f \in BOOLEAN, c \in PyConstants(m),
            file \in {PyObject("string", FALSE, "file", <<>>), PyObject("string", TRUE, "file", <<>>)}} : m \in BOOLEAN}
  \cup {[modern |-> TRUE, root |-> PyTuple(FALSE, <<PyNumber("1")>>), whole |-> TRUE]}

-----------------------------------------------------------------------------
\* Assemblies whose tables are small and large.
MethodCounts == {<<a, b, c>> : a \in {0, 1}, b \in 0 .. 2, c \in {0, 3}}

\* Rows of the tables before MethodDef and of those that indices lead to.
OtherRows == [{0, 1, 4, 8, 27, 35} -> {1}] \cup
  {[t \in {0, 1, 3, 4, 5, 8, 26, 27, 35} |-> IF t = large THEN n ELSE 1] :
      large \in {1, 3, 4, 5, 8, 26, 27, 35}, n \in {3, 4, 16}}

MCAssemblies ==
  [types : {[i \in 1 .. 3 |-> [methods |-> c[i]]] : c \in MethodCounts},
   rows : OtherRows, heaps : SUBSET {"string", "guid", "blob"}, cut : {0}]
  \cup [types : {[i \in 1 .. 3 |-> [methods |-> 1]]}, rows : OtherRows, heaps : {{}}, cut : {1, 40}]

-----------------------------------------------------------------------------
\* Chunks, of four nested prototypes at most.
Proto(name, code, constants, protos, n) ==
  [name |-> name, code |-> code, constants |-> constants, protos |-> protos,
   lines |-> n, locals |-> n, upvalues |-> n]

LeafProto(name, n) == Proto(name, <<name>>, <<"nil">>, <<>>, n)

Mains ==
  {Proto("main", <<"a", "b">>, k, p, n) :
     n \in {0, 2}, k \in {<<>>, <<"nil", "text">>, <<"text", "unknown">>},
     p \in {<<>>, <<LeafProto("f", 1), LeafProto("g", 0)>>,
            <<Proto("f", <<"c">>, <<>>, <<LeafProto("h", 1)>>, 1), LeafProto("g", 0)>>,
            <<Proto("f", <<>>, <<>>, <<Proto("h", <<>>, <<>>, <<LeafProto("i", 0)>>, 0)>>, 0)>>}}

MCChunks ==
  [sizes : [int : {4, 8}, text : {4, 8}, instruction : {4}, number : {8}], main : Mains, cut : {0, 1, 5}]
  \cup [sizes : [int : {2, 4}, text : {4}, instruction : {4, 8}, number : {4}], main : {LeafProto("main", 0)}, cut : {0}]

-----------------------------------------------------------------------------
\* Archives, of members that climb, repeat, are too large or no class.
MemberOf(name, stem, ext, dir, size, files) ==
  [name |-> name, stem |-> stem, ext |-> ext, dir |-> dir, size |-> size, intact |-> TRUE, files |-> files]
MembersOf(stems, ext, files) ==
  {MemberOf(n, s, e, FALSE, z, f) : n \in {<<>>, <<"p">>, <<"..", "p">>}, s \in stems, e \in {<<ext>>, <<ext, ext>>},
                                  z \in {1, 3}, f \in {<<>>, files}}
  \cup {MemberOf(<<"p">>, "A", <<".txt">>, FALSE, 9, <<>>), MemberOf(<<>>, "classes", <<ext>>, TRUE, 0, <<>>),
        MemberOf(<<>>, CHOOSE s \in stems : TRUE, <<ext>>, FALSE, 4, files),
        [MemberOf(<<>>, CHOOSE s \in stems : TRUE, <<ext>>, FALSE, 1, files) EXCEPT !.intact = FALSE]}
MCArchives ==
  [kind : {"jar"}, members : UNION {[1 .. n -> MembersOf({"A", "B"}, ".class", <<"A">>)] : n \in 0 .. 2}]
  \cup [kind : {"apk"}, members : UNION {[1 .. n -> MembersOf({"classes", "classes2"}, ".dex", <<"A", "B">>)] : n \in 0 .. 2}]
  \cup {[kind |-> k, members |-> [i \in 1 .. 3 |-> MemberOf(<<>>, "classes", <<IF k = "jar" THEN ".class" ELSE ".dex">>, FALSE, z, <<"A">>)]] : k \in {"jar", "apk"}, z \in {1, 2}}

-----------------------------------------------------------------------------
\* Bodies of up to three instructions of the lengths there are, whole and cut, and each
\* instruction of each machine alone and before another.
Op(kind, op, ns) == {[kind |-> kind, op |-> op, n |-> n] : n \in ns}

JvmOps == Op("plain", 177, {1}) \cup Op("plain", 16, {2}) \cup Op("plain", 184, {3}) \cup Op("plain", 200, {5})
          \cup Op("tableswitch", 170, {1, 2}) \cup Op("lookupswitch", 171, {0, 2})
          \cup Op("wide", 21, {4}) \cup Op("wide", 132, {6})
DexOps == Op("plain", 14, {1}) \cup Op("plain", 19, {2}) \cup Op("plain", 110, {3}) \cup Op("plain", 24, {5})
          \cup Op("payload", 0, {4})
IlOps  == Op("il", 42, {0}) \cup Op("il", 31, {1}) \cup Op("il", 40, {4}) \cup Op("il", 121, {4})
          \cup Op("prefix", 1, {0}) \cup Op("prefix", 21, {4}) \cup Op("switch", 69, {2, 3})

BodiesOf(machine, ops, cuts) ==
  [machine : {machine}, cut : cuts, body : UNION {[1 .. n -> ops] : n \in 0 .. 3}]

\* The formats alone, since the inputs of the listings are made from them.
Formats == INSTANCE Disassembly WITH Bodies <- {}

\* Every instruction of a machine, with up to eight entries or cells, by itself and
\* between two that are short.
Kinds == {"plain", "tableswitch", "lookupswitch", "wide", "payload", "il", "prefix", "switch"}
Every(machine, short, cuts) ==
  LET ops == [kind : Kinds, op : 0 .. 255, n : 0 .. 8] \cap Formats!InstructionsOf(machine)
  IN  [machine : {machine}, cut : cuts, body : UNION {{<<i>>, <<short, i, short>>} : i \in ops}]

MCBodies == BodiesOf("jvm", JvmOps, {0, 1, 6}) \cup BodiesOf("dex", DexOps, {0, 1}) \cup BodiesOf("il", IlOps, {0, 1, 8, 10})
            \cup BodiesOf("python", Op("plain", 100, {2}), {0, 1}) \cup BodiesOf("lua", Op("plain", 30, {4}), {0, 1})
            \cup UNION {Every("jvm", s, {0, 1, 2}) : s \in Op("plain", 177, {1})}
            \cup UNION {Every("dex", s, {0, 1, 2}) : s \in Op("plain", 14, {1})}
            \cup UNION {Every("il", s, {0, 1, 2}) : s \in Op("il", 42, {0})}

-----------------------------------------------------------------------------
\* Every number of a word of eight bits, in bytes of four, in every length.
NumbersOf(formats, values, lengths) == [format : formats, value : values, bytes : lengths, cut : {0, 1}]

\* Bytes of four bits: compressed numbers have 3, 6 or 13 bits.
MCNumbers == {w \in NumbersOf({"uleb"}, 0 .. 276, 1 .. 4) : w.value < 8 ^ w.bytes}
             \cup NumbersOf({"compressed"}, 0 .. 1, {0}) \cup NumbersOf({"compressed"}, 0 .. 7, {1})
             \cup NumbersOf({"compressed"}, 0 .. 63, {2})
             \cup NumbersOf({"compressed"}, {0, 7, 255}, {4})
             \cup NumbersOf({"little", "big"}, 0 .. 255, {2})

-----------------------------------------------------------------------------
\* Images that import from up to three DLLs, bound or not, whole and cut.
ImportOf(o, name) == [ordinal |-> o, name |-> name]
DllOf(name, imports) ==
  {[name |-> name, imports |-> i, lookup |-> l, bound |-> b] :
      i \in imports, <<l, b>> \in {<<TRUE, TRUE>>, <<TRUE, FALSE>>, <<FALSE, FALSE>>}}
Kernel == DllOf("kernel", {<<ImportOf(FALSE, "f")>>, <<ImportOf(FALSE, "f"), ImportOf(TRUE, "one")>>})
User   == DllOf("user", {<<>>, <<ImportOf(TRUE, "two"), ImportOf(FALSE, "g")>>})
MCLinkedImages ==
  {[dlls |-> d, pointer |-> w, tail |-> 0, low |-> l, directory |-> a, cut |-> c] :
     d \in {<<>>} \cup {<<k>> : k \in Kernel} \cup {<<k, u>> : k \in Kernel, u \in User}
         \cup {<<u, u, u>> : u \in User},
     w \in 1 .. 2, l \in BOOLEAN, a \in {100}, c \in {0, 3, 8, 16}}
  \cup {[dlls |-> <<k, u>>, pointer |-> w, tail |-> 1, low |-> FALSE, directory |-> a, cut |-> 0] :
          k \in Kernel, u \in User, w \in 1 .. 2, a \in {0, 100}}
  \cup {[dlls |-> <<[name |-> "kernel", imports |-> [i \in 1 .. n |-> ImportOf(FALSE, "f")], lookup |-> TRUE, bound |-> FALSE]>>,
         pointer |-> 1, tail |-> 0, low |-> FALSE, directory |-> 100, cut |-> 0] : n \in {3, 4, 5}}

-----------------------------------------------------------------------------
\* Data of up to three items: texts that are human or not, one after another.
ItemOf(kind, name, chars) == [kind |-> kind, name |-> name, chars |-> chars]
Letters(n) == [i \in 1 .. n |-> "letter"]
DataItems(name) ==
  {ItemOf("text", name, Letters(4)), ItemOf("text", name, Letters(5)), ItemOf("text", name, Letters(3)),
   ItemOf("text", name, <<"letter", "mark", "mark", "mark">>), ItemOf("wide", name, Letters(4)),
   ItemOf("slot", name, Letters(4) \o <<"zero", "zero">>), ItemOf("number", name, <<"one">>),
   ItemOf("number", name, <<"one", "zero", "zero", "zero">>)}
ItemLists(n) == UNION {{s \in [1 .. k -> UNION {DataItems(ToString(i)) : i \in 1 .. k}] :
                          \A i \in 1 .. k : s[i].name = ToString(i)} : k \in 0 .. n}
DataSection(base, items) == [text |-> FALSE, base |-> base, items |-> items]
MCLayouts ==
  {[sections |-> <<DataSection(8, s)>>, symbols |-> <<[address |-> a, name |-> "s"], [address |-> 8, name |-> "t"]>>] :
      s \in ItemLists(3), a \in {0, 8}}
  \cup {[sections |-> <<DataSection(8, s), [DataSection(60, <<>>) EXCEPT !.text = TRUE], DataSection(90, <<ItemOf("wide", "w", Letters(4))>>)>>,
         symbols |-> <<[address |-> 90, name |-> ""]>>] :
          s \in ItemLists(2) \cup {[i \in 1 .. 3 |-> ItemOf("text", ToString(i), Letters(4))]}}

-----------------------------------------------------------------------------
\* Images for FunctionTable: two adjacent text sections and one of data.
MCStart == [text |-> 1, init |-> 4, data |-> 6]
MCEnd   == [text |-> 4, init |-> 6, data |-> 7]

FunctionCode == {[kind |-> k, target |-> 0] : k \in {"next", "return"}}
        \cup {[kind |-> "call", target |-> t] : t \in {1, 3, 4, 6}}

SymbolOf(a, n, name) == [address |-> a, size |-> n, name |-> name]

MCImages ==
  [symbols : {<<>>, <<SymbolOf(0, 1, "f")>>, <<SymbolOf(1, 0, "f"), SymbolOf(1, 2, "g")>>,
              <<SymbolOf(1, 2, "f"), SymbolOf(2, 0, "g"), SymbolOf(1, 3, "sub")>>,
              <<SymbolOf(1, 0, "f"), SymbolOf(1, 1, Generated), SymbolOf(3, 1, Generated), SymbolOf(3, 0, "g")>>},
   pdata   : {<<>>, <<[begin |-> 1, end |-> 3]>>, <<[begin |-> 1, end |-> 4]>>,
              <<[begin |-> 1, end |-> 2], [begin |-> 3, end |-> 4], [begin |-> 2, end |-> 2]>>},
   entry   : {0, 1, 3},
   code    : {c \in [1 .. 6 -> FunctionCode] : c[5].kind = "return" /\ c[6].kind = "next"}]
=============================================================================
