----------------------------- MODULE Decompile -----------------------------
(***************************************************************************)
(* The decompilation pipeline of src/src/decompile.rs: several invocations *)
(* of decompile(), each started by a command line or by the worker thread  *)
(* of the window, over one file system that its user changes meanwhile.    *)
(*                                                                         *)
(* A run detects the input, reads it (a second time), prepares the output  *)
(* path, runs the engine of the detected kind, and writes what the engine  *)
(* returned: one file, or a tree file by file.  Each of these is a step:   *)
(* other runs and the user act in between.                                 *)
(*                                                                         *)
(* A name is a sequence of tokens, the extension being the last one:       *)
(* <<"app", ".decompiled", ".c">>.  A path is a sequence of names.  The     *)
(* bytes of a file are an image (an input: its kind, whether its engine     *)
(* accepts it, and the files the engine recovers) or a text some engine     *)
(* wrote.  Symbolic links are not modelled.                                 *)
(***************************************************************************)
EXTENDS Integers, SequencesExt

CONSTANTS
  Runs,        \* identities of invocations
  Paths,       \* every path a step may touch, prefix-closed
  Inputs,      \* the paths of input files
  Images,      \* what an input file may hold
  Formats,     \* native output formats
  Disks,       \* what the disk may hold at first
  Outputs,     \* the paths that command lines give with -o
  IoFaults     \* whether an operation on a file may fail of itself

TreeKinds  == {"jvm-jar", "android-dex", "android-apk"}   \* output_is_directory
TotalKinds == {"source", "unknown"}                       \* engines that cannot fail
FileKinds  == TreeKinds \cup TotalKinds \cup
              {"jvm-class", "python-bytecode", "lua-bytecode", "wasm", "dotnet", "native"}

ASSUME PathAssumption ==
  /\ \A p \in Paths : p \in Seq(ToSet(p)) /\ \A name \in ToSet(p) : name \in Seq(ToSet(name))
  /\ Inputs \subseteq Paths
  /\ \A p \in Paths : Prefixes(p) \subseteq Paths
  /\ \A i \in Images : i.type = "image" /\ i.kind \in FileKinds /\ i.parses \in BOOLEAN
  /\ IoFaults \in BOOLEAN

VARIABLES
  disk,    \* the file system: what each path holds
  runs     \* the invocations

-----------------------------------------------------------------------------
(***************************************************************************)
(* The file system, as decompile.rs uses std::fs.                          *)
(***************************************************************************)
Absent  == [type |-> "absent"]
Dir     == [type |-> "dir"]
Torn    == [type |-> "torn"]         \* a write that failed half way
Text(kind, format, data, part) ==
  [type |-> "text", kind |-> kind, format |-> format, of |-> data, part |-> part]

Exists(d, p) == d[p].type # "absent"
IsFile(d, p) == Exists(d, p) /\ d[p].type # "dir"
Under(p, q)  == IsPrefix(q, p)
Overlap(p, q) == Under(p, q) \/ Under(q, p)

\* Mutant: only the entry itself goes, what lies below it stays.
RemoveEntry(d, p) == [d EXCEPT ![p] = Absent]

\* Mutant: an old tree is written into, not replaced.
RemoveFileOnly(d, p) ==
  IF IsFile(d, p) THEN [d EXCEPT ![p] = Absent] ELSE d

RemoveExisting(d, p) == [q \in DOMAIN d |-> IF Under(q, p) THEN Absent ELSE d[q]]

\* create_dir_all fails where a file stands in the way.
CanCreateDirs(d, p) == \A q \in Prefixes(p) : ~IsFile(d, q)
CreateDirAll(d, p)  == [q \in DOMAIN d |-> IF q \in Prefixes(p) THEN Dir ELSE d[q]]

CanWrite(d, p) == d[p].type # "dir" /\ d[Front(p)].type = "dir"

-----------------------------------------------------------------------------
(***************************************************************************)
(* Pure functions of decompile.rs.                                         *)
(***************************************************************************)
Suffix(kind, format) ==
  CASE kind \in TreeKinds          -> <<"-decompiled">>
    [] kind = "jvm-class"          -> <<".decompiled", ".java">>
    [] kind = "python-bytecode"    -> <<".decompiled", ".py">>
    [] kind = "lua-bytecode"       -> <<".decompiled", ".lua">>
    [] kind = "wasm"               -> <<".decompiled", ".wat">>
    [] kind = "dotnet"             -> <<".decompiled", ".cs">>
    [] kind = "native"             -> <<".decompiled", "." \o format>>
    [] kind = "source"             -> <<".copy", ".txt">>
    [] kind = "unknown"            -> <<".analysis", ".txt">>

\* file_stem drops the extension, if the name has more than a stem.
FileStem(name) ==
  IF Len(name) > 1 /\ Last(name) # "-decompiled" THEN Front(name) ELSE name

DefaultOutput(input, kind, format) ==
  IF input = <<>> THEN << <<"output">> \o Suffix(kind, format) >>
  ELSE Append(Front(input), FileStem(Last(input)) \o Suffix(kind, format))

\* detect(): a text some engine wrote reads as source.
KindOf(data) == CASE data.type = "image" -> data.kind
                  [] data.type = "text"  -> "source"
                  [] data.type = "torn"  -> "unknown"

\* safe_relative: no parent, root or prefix component, and not empty.
UnsafeNames == {<<"..">>, <<"/">>}

SafeRelative(rel) == rel # <<>> /\ \A i \in DOMAIN rel : rel[i] \notin UnsafeNames

\* Where the operating system comes to from a directory along one name.
Enter(dir, name) == CASE name = <<"..">> -> Front(dir)
                      [] name = <<"/">>  -> <<>>
                      [] name \notin UnsafeNames -> Append(dir, name)

\* What it resolves root.join(rel) to: `at' after its first n names.
Resolve(root, rel) ==
  LET at[n \in 0 .. Len(rel)] == IF n = 0 THEN root ELSE Enter(at[n - 1], rel[n])
  IN  at[Len(rel)]

\* Whether the engine of `kind' accepts the data, and the files it returns.
EngineAccepts(kind, data) ==
  \/ kind \in TotalKinds
  \/ data.type = "image" /\ data.kind = kind /\ data.parses

\* The names the engine returns; a kind with one file has no name for it.
EngineFiles(kind, data) == IF kind \in TreeKinds THEN data.members ELSE << <<>> >>

\* The n-th file the engine returns.
EngineText(kind, format, data, n) ==
  IF kind = "source" THEN data
  ELSE Text(kind, IF kind = "native" THEN format ELSE "any", data, n)

-----------------------------------------------------------------------------
Idle == [stage |-> "idle"]

NewRun(input, output, force, format) ==
  [stage |-> "detect", input |-> input, output |-> output, force |-> force,
   format |-> format, kind |-> "unknown", data |-> Absent, written |-> 0,
   error |-> "none"]

RunInit == runs = [r \in Runs |-> Idle]

At(r, stage)  == runs[r].stage = stage
Ended(r)      == runs[r].stage \in {"ok", "err"}
InTree(r)     == runs[r].kind \in TreeKinds
Running(r)    == runs[r].stage \notin {"idle", "ok", "err", "panic"}

Goto(r, stage) == runs' = [runs EXCEPT ![r].stage = stage]
Fail(r, error) == runs' = [runs EXCEPT ![r].stage = "err", ![r].error = error]

Start(r, input, output, force, format) ==
  /\ At(r, "idle")
  /\ runs' = [runs EXCEPT ![r] = NewRun(input, output, force, format)]

\* `let detection = detect(input)?;'
Detect(r) ==
  /\ At(r, "detect")
  /\ UNCHANGED disk
  /\ \/ /\ IsFile(disk, runs[r].input)
        /\ runs' = [runs EXCEPT ![r].stage = "read",
                                ![r].kind = KindOf(disk[runs[r].input])]
     \/ /\ ~IsFile(disk, runs[r].input) \/ IoFaults
        /\ Fail(r, "detect")

\* `let data = read_input(input)?;' opens the path once more.
ReadInput(r) ==
  /\ At(r, "read")
  /\ UNCHANGED disk
  /\ \/ /\ IsFile(disk, runs[r].input)
        /\ runs' = [runs EXCEPT ![r].stage = "prepare",
                                ![r].data = disk[runs[r].input]]
     \/ /\ ~IsFile(disk, runs[r].input) \/ IoFaults
        /\ Fail(r, "input")

\* Mutant: an existing directory is not seen (is_file for exists).
RefusesFile(r) == IsFile(disk, runs[r].output) /\ ~runs[r].force

Refuses(r) == Exists(disk, runs[r].output) /\ ~runs[r].force

\* prepare_output refuses an output that exists unless it is forced to replace
\* it; then the old output is removed, before the engine has seen the input.
OutputExists(r) ==
  /\ At(r, "prepare")
  /\ Refuses(r)
  /\ Fail(r, "exists")
  /\ UNCHANGED disk

PrepareOutput(r) ==
  LET out     == runs[r].output
      cleared == RemoveExisting(disk, out)
  IN  /\ At(r, "prepare")
      /\ ~Refuses(r)
      /\ IF CanCreateDirs(cleared, Front(out))
         THEN disk' = CreateDirAll(cleared, Front(out)) /\ Goto(r, "engine")
         ELSE disk' = cleared /\ Fail(r, "prepare")

\* remove_dir_all or create_dir_all fails, some of the old output removed.
PrepareFault(r) ==
  /\ IoFaults
  /\ At(r, "prepare")
  /\ ~Refuses(r)
  /\ \E left \in SUBSET {p \in Paths : Under(p, runs[r].output) /\ IsFile(disk, p)} :
       disk' = [p \in Paths |-> IF p \in left THEN Absent ELSE disk[p]]
  /\ Fail(r, "prepare")

EngineFails(r) ==
  /\ At(r, "engine")
  /\ ~EngineAccepts(runs[r].kind, runs[r].data)
  /\ Fail(r, "engine")
  /\ UNCHANGED disk

\* The engine returns; a tree's root is created before its first file.
RunEngine(r) ==
  /\ At(r, "engine")
  /\ EngineAccepts(runs[r].kind, runs[r].data)
  /\ IF InTree(r) => CanCreateDirs(disk, runs[r].output)
     THEN /\ disk' = IF InTree(r) THEN CreateDirAll(disk, runs[r].output) ELSE disk
          /\ Goto(r, "write")
     ELSE UNCHANGED disk /\ Fail(r, "write")

\* The name the engine gave the next file, its path, and the disk with the
\* directories above it made (write_tree only).
NextName(r) == EngineFiles(runs[r].kind, runs[r].data)[runs[r].written + 1]
NextPath(r) == IF InTree(r) THEN Resolve(runs[r].output, NextName(r)) ELSE runs[r].output
NextMade(r) == IF InTree(r) THEN CreateDirAll(disk, Front(NextPath(r))) ELSE disk
MoreFiles(r) == runs[r].written < Len(EngineFiles(runs[r].kind, runs[r].data))
\* Mutant: only the empty name is rejected.
NameIsNotEmpty(r) == InTree(r) => NextName(r) # <<>>

NameIsSafe(r) == InTree(r) => SafeRelative(NextName(r))
CanMake(r)    == InTree(r) => CanCreateDirs(disk, Front(NextPath(r)))

\* One turn of write_tree's loop, or the one fs::write of the other kinds.
WriteFile(r) ==
  /\ At(r, "write")
  /\ MoreFiles(r)
  /\ NameIsSafe(r)
  /\ CanMake(r)
  /\ CanWrite(NextMade(r), NextPath(r))
  /\ disk' = [NextMade(r) EXCEPT ![NextPath(r)] =
                EngineText(runs[r].kind, runs[r].format, runs[r].data, runs[r].written + 1)]
  /\ runs' = [runs EXCEPT ![r].written = @ + 1]

\* The file system refuses the directories or the file: the files before stay.
WriteFails(r) ==
  /\ At(r, "write")
  /\ MoreFiles(r)
  /\ NameIsSafe(r)
  /\ \/ ~CanMake(r) /\ UNCHANGED disk
     \/ CanMake(r) /\ ~CanWrite(NextMade(r), NextPath(r)) /\ disk' = NextMade(r)
  /\ Fail(r, "write")

\* fs::write fails after it truncated the file.
WriteFault(r) ==
  /\ IoFaults
  /\ At(r, "write")
  /\ MoreFiles(r)
  /\ NameIsSafe(r)
  /\ CanMake(r)
  /\ CanWrite(NextMade(r), NextPath(r))
  /\ disk' = [NextMade(r) EXCEPT ![NextPath(r)] = Torn]
  /\ Fail(r, "write")

\* safe_relative rejects the name: the files before it stay.
RejectName(r) ==
  /\ At(r, "write")
  /\ MoreFiles(r)
  /\ ~NameIsSafe(r)
  /\ Fail(r, "path")
  /\ UNCHANGED disk

Finish(r) ==
  /\ At(r, "write")
  /\ ~MoreFiles(r)
  /\ Goto(r, "ok")
  /\ UNCHANGED disk

RunStep(r) ==
  \/ Detect(r)
  \/ ReadInput(r)
  \/ OutputExists(r)
  \/ PrepareOutput(r)
  \/ PrepareFault(r)
  \/ EngineFails(r)
  \/ RunEngine(r)
  \/ WriteFile(r)
  \/ WriteFails(r)
  \/ WriteFault(r)
  \/ RejectName(r)
  \/ Finish(r)

-----------------------------------------------------------------------------
(***************************************************************************)
(* The user, who edits the files the program reads.                        *)
(***************************************************************************)
UserWrites(p, image) ==
  /\ CanWrite(disk, p)
  /\ disk[p] # image
  /\ disk' = [disk EXCEPT ![p] = image]

UserDeletes(p) ==
  /\ IsFile(disk, p)
  /\ disk' = [disk EXCEPT ![p] = Absent]

-----------------------------------------------------------------------------
(***************************************************************************)
(* Vocabulary of the properties.                                           *)
(***************************************************************************)
\* What may be read as an image, and the outputs of all invocations.
AllImages  == {i \in Images \cup UNION {{d[p] : p \in Paths} : d \in Disks} : i.type = "image"}
AllOutputs == Outputs \cup {DefaultOutput(p, k, f) : p \in Inputs, f \in Formats,
                                                    k \in {i.kind : i \in AllImages} \cup TotalKinds}

\* Whatever exists lies in a directory.
IsTree(d) == \A p \in Paths \ {<<>>} : Exists(d, p) => d[Front(p)].type = "dir"

ASSUME DiskAssumption ==
  \A d \in Disks :
    /\ DOMAIN d = Paths /\ IsTree(d)
    /\ \A p \in Paths : d[p] \in {Absent, Dir, Torn} \/ d[p].type \in {"image", "text"}

ASSUME ImageAssumption ==
  \A i \in AllImages :
    /\ i.kind \in FileKinds
    /\ i.kind \in TreeKinds =>
         i.members \in Seq(ToSet(i.members)) /\ \A m \in ToSet(i.members) : m \in Seq(ToSet(m))

\* Paths has every path that an invocation leads to.  (The root of the disk, which
\* nobody can remove, is no output.)
ASSUME OutputAssumption ==
  \A o \in AllOutputs :
    /\ o \in Paths \ {<<>>}
    /\ \A i \in AllImages : i.kind \in TreeKinds =>
         \A m \in ToSet(i.members) : SafeRelative(m) => o \o m \in Paths

RunRecord(run) ==
  /\ run.stage \in {"detect", "read", "prepare", "engine", "write", "ok", "err", "panic"}
  /\ run.input \in Inputs /\ run.output \in Paths
  /\ run.force \in BOOLEAN /\ run.format \in Formats /\ run.kind \in FileKinds
  /\ run.written \in Nat
  /\ run.error \in {"none", "detect", "input", "exists", "prepare", "engine", "write", "path"}
  /\ run.stage = "err" <=> run.error # "none"

\* The type invariant, with what makes a disk a disk: whatever exists lies in a
\* directory, so create_dir_all, remove_dir_all and write keep it a tree.
TypeOK ==
  /\ DOMAIN disk = Paths
  /\ IsTree(disk)
  /\ \A r \in Runs : runs[r] = Idle \/ RunRecord(runs[r])

\* No other run ever had an output that overlaps the output of r.
Alone(r) == \A q \in Runs \ {r} :
              At(q, "idle") \/ ~Overlap(runs[q].output, runs[r].output)

\* The output of r is clear of what the user edits.
ClearOfInputs(r) == \A p \in Inputs : ~Overlap(p, runs[r].output)

\* What the output of a successful run of r holds, path by path: of two files
\* with one name the later remains.
Produced(r) ==
  LET files == EngineFiles(runs[r].kind, runs[r].data)
      path(n) == IF InTree(r) THEN Resolve(runs[r].output, files[n]) ELSE runs[r].output
      last(p) == CHOOSE n \in DOMAIN files :
                   path(n) = p /\ \A m \in DOMAIN files : path(m) = p => m <= n
  IN  [p \in {path(n) : n \in DOMAIN files} |->
         EngineText(runs[r].kind, runs[r].format, runs[r].data, last(p))]

\* The paths r has written so far.
Written(r) ==
  {IF InTree(r) THEN Resolve(runs[r].output, EngineFiles(runs[r].kind, runs[r].data)[n])
                ELSE runs[r].output : n \in 1 .. runs[r].written}

FilesUnder(p) == {q \in Paths : Under(q, p) /\ IsFile(disk, q)}
=============================================================================
