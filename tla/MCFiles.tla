------------------------------ MODULE MCFiles ------------------------------
(***************************************************************************)
(* Names, images and paths that the instances of Cli and Gui share: an     *)
(* archive app.jar and a native binary app.exe side by side.               *)
(***************************************************************************)
EXTENDS Decompile

A == <<"A", ".java">>
B == <<"b">>
C == <<"c">>

Jar == << <<"app", ".jar">> >>
Exe == << <<"app", ".exe">> >>
JarOut  == << <<"app", "-decompiled">> >>
ExeOut  == << <<"app", ".decompiled", ".c">> >>
RustOut == << <<"app", ".decompiled", ".rs">> >>
CopyOut == << <<"app", ".copy", ".txt">> >>
LogOut  == << <<"app", ".analysis", ".txt">> >>
Chosen  == << <<"d">>, <<"out">> >>

Image(kind, parses, members) ==
  [type |-> "image", kind |-> kind, parses |-> parses, members |-> members]

GoodJar  == Image("jvm-jar", TRUE, << <<A>>, <<B, A>> >>)
\* One name twice, then a file where a directory should be.
ClashJar == Image("jvm-jar", TRUE, << <<A>>, <<A>>, <<A, B>> >>)
EvilJar  == Image("jvm-jar", TRUE, << <<A>>, << <<"..">>, <<"app", ".exe">> >> >>)
GoodExe  == Image("native", TRUE, <<>>)
BadExe   == Image("native", FALSE, <<>>)

TreeOf(root) == {root, Append(root, A), Append(root, B), Append(root, C), root \o <<B, A>>, root \o <<A, B>>}

MCInputs  == {Jar, Exe}
MCPaths   == {<<>>, Jar, Exe, SubSeq(Chosen, 1, 1), Append(SubSeq(Chosen, 1, 1), <<"app", ".exe">>)} \cup TreeOf(ExeOut) \cup TreeOf(RustOut)
             \cup TreeOf(CopyOut) \cup TreeOf(LogOut) \cup TreeOf(JarOut) \cup TreeOf(Chosen)

Holding(p, data) == [q \in {p} |-> data]
Disk(f) == [p \in MCPaths |-> IF p = <<>> THEN Dir
                              ELSE IF p \in DOMAIN f THEN f[p] ELSE Absent]

\* An older tree under the archive's output, holding a file no image has.
OldTree == [p \in {JarOut, Append(JarOut, C)} |->
              IF p = JarOut THEN Dir ELSE Text("jvm-jar", "any", Torn, 1)]
=============================================================================
