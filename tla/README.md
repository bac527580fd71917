# PolyDecomp in TLA+

A model of PolyDecomp: the pipeline that turns a file into an output, the two
front ends that start it, the native engine that recovers functions,
control-flow graphs and readable values, and the readers of the other formats
(class files and JARs, DEX and APKs, .NET metadata, CPython and Lua bytecode, PE
imports). Paths below are relative to `src/src/`. The modules are checked with
TLC on small instances; graph recovery, its text, the data flow, the discovery of
functions, the pipeline, the window, detection, the listings, archives, class files, DEX
files and .NET tables are proved with TLAPS for every value of their constants.

## 1. Inventory

| Component | Source | State | Operations | Hard behaviour |
|---|---|---|---|---|
| Pipeline | `decompile.rs`, `model.rs` | the file system; locals of a run | `decompile`, `prepare_output`, `remove_existing`, `write_tree`, `safe_relative`, `default_output_with_format` | two invocations at once, a user who edits inputs, partial failure, names that collide or escape |
| Command line | `main.rs` | none | `decompile`, `detect`, `doctor`, `gui` | the input is opened three times |
| Window | `gui.rs` | fields, detection, format, busy flag, receiver, preview | edits, drop, detect, decompile, poll, preview | a worker thread, edits while it runs, a thread that unwinds |
| Detection | `detect.rs` | none | `detect`, `pe_has_clr`, `native_language` | eleven rules in an order |
| Function recovery | `engines/native.rs` 197-588 | table of functions, queue of discovery | symbols, `.pdata`, entry, discovery, inferred sizes | sources that disagree, limits, two decodings of one function |
| CFG recovery | `engines/native.rs` 373-484 | work list, decoded addresses, blocks | `decode_x86_cfg` | overlapping code, branches into blocks, limits |
| Data flow | `engines/native_v050/lift.rs` 206-448 | state of each block, work list | `compute_states`, `apply_state`, `merge_state` | loops, order of the work list, step limit |
| Conditions | `lift.rs` 450-478, 884-953 | comparison remembered along a block | `condition_expression`, `enhance_function` | flags set by others, widths |
| Text of a function | `lift.rs` 865-1010, `native_v050/render.rs` | none | `enhance_function`, `render` | fall-through said by order alone, jumps left out, loop headers |
| References, stack slots | `lift.rs` 175-204, 480-693 | run of text that is open, maps of strings, symbols and slots | `collect_addressed_strings`, `collect_symbols`, `build_references` | two scans over the same bytes into one map, limit of strings |
| PE imports | `engines/native_v050/pe.rs` | position, slots found | `imports`, `rva_to_offset` | bound images, bounded table walks |
| CPython | `engines/pyc.rs` | position, open objects, reference table | `MarshalReader::parse`, listing | numbering of nested references, depth |
| JVM | `engines/jvm.rs` | position, constant pool, members; members of an archive | `parse_constant_pool`, `decompile_class`, `code_text`, `decompile_jar` | two-slot entries, padding of switches, names that collide, limits of an archive |
| DEX | `engines/dex.rs` | position, class being read, running method number | `DexFile::parse`, `parse_class_data`, `decompile_apk` | numbers stored as differences, empty and absent tables |
| .NET | `engines/dotnet.rs` | position, rows | `parse_tables`, `disassemble_il`, `compressed_uint` | widths that depend on other tables, operand lengths |
| Lua | `engines/lua.rs` | position, open prototypes | `parse_lua51_function` | nested prototypes, sizes of the header, depth |
| WebAssembly | `engines/wasm.rs` | none | one library call | none of its own |
| Readers | `engines/mod.rs` | position | `Reader`, `read_uleb` | width of integers |
| Tables | `i18n.rs`, `capabilities.rs`, `lib.rs` | none | none | none |

**Interaction.** The command line and the window's worker thread both call
`decompile`, which calls one engine by the detected kind. Only the file system
is shared between invocations; only the channel (`mpsc`) and the `busy` flag
between window and thread. `decompile_native` runs function recovery, then CFG
recovery of each function, passes the result on as JSON, and runs data flow,
conditions and rendering over it. The other engines are one pass over their
bytes: a reader, then a listing of each body; the two archives call the
reader of their members.

**What makes each part correct.** *Pipeline:* without `--force` nothing that exists
is lost; a tree never leaves its root; success means the exact output, failure
a prefix of it. *Window:* one job at a time; what is on the screen belongs together
(format and automatic output, result and preview); it stops being busy.
*Detection:* what a tool wrote goes to the engine of that tool's format.
*Functions:* calls lead to listed functions, sizes do not run into neighbours,
knowledge is not lost. *CFG:* the instructions are those control reaches, each in
one block, with the edges that control has. *Text:* read from top to bottom it
goes where the code goes; a loop shows. *Data flow:* a printed value is what
the register holds; the analysis is finished when it says so. *Conditions:* the
printed condition is the branch's. *Engines:* what the tool of a format wrote is
read back, and what is cut off or beyond a limit is refused; references resolve to what the
format numbers; a listing stays in step with the instructions; an archive is
written whole or not at all, no member over another.

`PROJECT.json` lists the hazards of this code at their lines, with the properties
that watch them.

## 2. Modules

| Module | Models | Kind |
|---|---|---|
| `Decompile` | `decompile()` step by step over a disk, and the disk | component |
| `Cli` | several command lines and the user over `Decompile` | composition |
| `Gui` | fields, buttons, worker, channel, preview over `Decompile` | composition |
| `FunctionTable` | `collect_functions` | component |
| `NativeCfg` | `decode_x86_cfg` | component |
| `Search` | a search of a graph that may be cut, which `NativeCfg` implements | abstract |
| `ReadableText` | order, labels, jumps and loop headers of the text of a graph, over `NativeCfg` | component |
| `SymbolicState` | `apply_state`, `merge_state` and their helpers, as operators | library |
| `Lift` | `compute_states` | component |
| `Conditions` | the comparison of a block and `condition_expression`, beside the flags | component |
| `NativeLift` | `NativeCfg`, then `Lift` (by `INSTANCE`), then a machine that runs the code | composition |
| `Detection` | `detect` | component |
| `ClassFile` | constant pool, members, attributes of a class | component |
| `Dex` | class data and the classes of a DEX file | component |
| `Marshal` | the marshal reader of CPython code objects | component |
| `Metadata` | the tables of .NET metadata and the methods of each type | component |
| `LuaChunk` | nested prototypes of Lua 5.1 | component |
| `Archive` | JARs and APKs: members, limits, names | component |
| `Disassembly` | the listings of five instruction sets | component |
| `Encodings` | LEB128, compressed and fixed-width numbers | component |
| `Imports` | import slots of a PE image | component |
| `References` | what an operand in memory is printed as: strings, symbols, import slots | component |
| `Readers` | the state of the readers, and those of class files, DEX files, assemblies and archives, each by `INSTANCE` | composition |
| `Engines` | one reader, of `Readers` or another, or `FunctionTable`, by `engine` | composition |
| `PipelineProofs` | what the steps of `Decompile` keep | lemmas |
| `NativeLiftProofs` (with `NativeCfg`, `ReadableText` and `Search`), `LiftProofs`, `ConditionsProofs`, `CliProofs`, `GuiProofs`, `ReaderProofs` (lemmas on `ClassFile`, `Dex`, `Metadata`, `Archive`), `EngineProofs` (`FunctionTable`, lemmas on `Detection` and `Disassembly`, and what follows for `Engines`) | theorems | proofs |
| `MC*`, `MCFiles` | instances | checking |

### Correspondence

`NativeCfg`. `pc` is the place in the two nested `while` loops; every way through
the outer loop's head (`WorkListEmpty`, `StopAtLimit`, `SkipOutside`,
`BeginBlock`), every way through the inner loop (`StopDecoding`, `JoinDecoded`,
`DecodeInstruction`) and the tail (`FinishBlock`) is an action. `pending`,
`queued`, `decoded`, `total` are the code's variables; `blocks` is the vector, by
address, since it is sorted in the end. The bytes are a function from addresses
to decoded instructions, of any length and overlapping at will. That the decoder
gives one instruction per address and never runs past the end is assumed of the
library.

`Search` says what the recovery is for: from some roots it visits what is found
over the edges of a graph, one node at a time and each once, and either finishes, with
nothing found left unvisited, or is cut. `NativeCfg` implements it (`SearchesFlow`):
the nodes are addresses, the graph is the flow of control, `visited` is `decoded`, and
`Progress` tells from `pc` and the limits whether the search goes on, is finished or is
cut. So the search may be given up only where a limit is reached.

`ReadableText` adds no state: the text is a function of the finished graph. Blocks
stand in the order of their addresses; a jump to the block below is left out
(`natural_fallthrough`); a block is a loop header when an edge from its own address or
from above leads to it. The text is then read as the program it looks like. Loops are sets of
instructions, among which control can stay (`Lasting`), and not sets of blocks: so those count too that
are closed by a branch into a block.

`SymbolicState`, `Lift`. A state is a function from the registers bound to
expressions, which are sequences of symbols, operators before their operands; the length
of one stands for the length of the text that `bounded_expression` measures.
Instructions are classes of mnemonics. What an expression *says* (`Meaning`) takes the
operations of the instances to be addition. `states`, `queue`, `queued`
and `steps` are the code's; `lift` is the place in the loops; `from` and `out`
are history: the state each block was last run from, and the result.

`NativeLift` runs the code it decompiles: `at` and `regs` move by `Flow` and by
what each instruction leaves in the registers (any value where the instruction is
outside what `apply_state` knows; any in all registers where it writes others than its
operand, as `mul` does). `lift.rs` gives `eax` and `rax` one name; the machine does not: an instruction has a
`width`, and writes the whole register, its low half with zeros above (`mov r32`, any operation on 32 bits), or
that with its sign above (`movsxd`). A callee leaves anything in the result and in the registers of
`Spoiled`, whatever `abi.volatile` has. The stack pointer is not among the registers. `StateBefore` is the state `enhance_function`
prints an instruction with.

`Conditions` adds the processor's flags, on registers of `2 * Half` values, and asks of
every state what a conditional branch would print and do there.

`FunctionTable`. `table` is the map of `insert_function`, and later the records of
the vector whose order `functions` keeps. Names are those of the symbols, `entry_`, and one for all that begin with
`sub_`. Code is a call, a return or neither at
each address; a function decodes a straight line of it, as far as its size lets it.

`Decompile`. A run's `stage` is the place in `decompile()`, and between its steps
other runs and the user act. A step is one call to the file system, but for two: the output is looked for and removed and
its directories are made in one (`PrepareOutput`), and so is a file with the directories above it (`WriteFile`). The disk maps paths to
directories, images, texts and torn files. An engine is a function of the bytes it
was given; `parses` says whether it accepts them. A path is a sequence of names, a name
a stem and its extensions; `Resolve` walks a name an archive gave from a directory on,
one `Enter` for each component, as the system would if `safe_relative` let it through.
`Disks` are the disks to begin with and `Outputs` what `-o` may name: any path but the
root, which nobody can remove. The window has no `-o` (`Outputs` is empty): a click
writes to the automatic output, whatever the field said.

`Gui`. One action per handler of the window, each whole: the handler for the
format resets the output, the click on Decompile detects again. The worker is a
run of `Decompile`; `channel` is what `try_recv` sees. `shown` and `origin` are
history: `origin` says who put the output in its field, the user or the window, from which file and
kind, and whether another input was typed since.

*The readers* (`Detection` to `References`) share their state, so that `Engines` can hold any
of them: `input` is what is read, `pos` how far, `stack` the loops or calls that are
open, `out` what was made of it, `status` how it ended. A .NET file that is cut off lacks the end of its tables, which are its last part. Each module first says how
the tool of the format lays it out (`javac`, `dx`, CPython, an ECMA-335 writer, `luac`,
an assembler, a linker), and then reads it with one action for each way through the
code's loops. (`References` reads what a compiler lays out in the sections of an image.) Its
property compares the two: what was written is read back, what is
cut off is refused. A byte or number whose own value nothing depends on is a
cell; a name is a value. `Detection` takes one of the code's rules at a step, in their
order; `Disassembly` has the opcodes of each format with their lengths by what their operands are, and beside them
the code's own tables (`FixedLength`, `DexLength`, `OperandTable`), with what these get wrong (`Misread`);
`Archive` takes a member; `Marshal` and `LuaChunk` keep the recursion of the code on
`stack`, up to its limit of depth.

## 3. Runs

| Run | Checks | Bounds, and why they suffice |
|---|---|---|
| `cfg` | the graph is the one control flow defines; its text goes where the code goes, and a loop that is not closed by going back into a block has its mark | every function of 4 bytes over the ways control can go on (a call goes on like any instruction), lengths 1-2, every target in range and one outside: overlap, joins, rotated loops and branches into blocks all need at most three instructions |
| `cfg_limits` | limits bind exactly; the recovery is a search along the flow of control that is cut only there; the loops end | every function of up to 4 bytes over all control classes and fewer targets, one before and one past the end, with 2 blocks and 3 instructions allowed |
| `lift` | solution, budget, monotonicity | every graph of 3 blocks with up to 2 successors, one of them no block; `MaxSteps` 9 is hit by some |
| `native_lift` | printed values hold | every function of 1 and of 4 one-byte instructions of ten kinds, whole and low halves, copies with zeros and with the sign above, and a write that `apply_state` does not follow among them, every call of it; two paths that disagree and a loop fit; registers of two bits have two halves |
| `lift_unsplit` | violated: values where branches enter blocks in the middle | functions of 3 instructions, the shortest that show it |
| `conditions` | conditions after `cmp`, and after `test r,r` for `je`/`jne` | 3-bit registers hold both signs and both overflows; 3 instructions allow a compare, a change and a compare |
| `conditions_test` | violated: every branch after a `test` | one instruction |
| `cli` | exact output, failed runs, confinement, no loss without force | two runs with and without force over one disk, every file operation may fail, archives with a repeated name, a file where a directory should be and an escaping name, one user edit; the runs are interchangeable (`SYMMETRY`) |
| `gui` | one job, an automatic output that is of the file it was made for and of the format on the screen, preview of the result, own input untouched | two clicks, two inputs, two formats, every edit between |
| `gui_live` | the window stops being busy | one click, a thread that may unwind |
| `engines` | every reader reads back what was written or refuses it; operands are named for what is at their address; functions: calls listed, sizes fit, what is known of a function stays | see below |
| `marshal_nested` | violated: references in code objects whose flagged objects nest | the same code objects |

`engines` has, of each part, inputs that are small but hold every case its code tells apart:

* `Detection`: the files of eleven tools, under every extension one could bear, PE
  images with 14 and 16 directories, native files with and without the marks of languages.
* `ClassFile`: a two-slot constant at the start, in the middle, in pairs and at the end of
  a pool; code with handlers, attributes of its own and slack, before and after
  members without; files cut at each place after the pool.
* `Dex`: every choice of direct and virtual methods of two classes from five methods,
  tables beyond `MaxEntries` (6), classes without methods.
* `Marshal`: constants that share, refer and nest up to one level beyond `MaxNesting` (3), in
  both layouts of a code object, whole and cut.
* `Metadata`: each table that an index leads to small or at and above the size
  at which it becomes wide (`Wide`, 4 bits for the 16 of the format), each choice of heaps.
* `LuaChunk`: four prototypes, side by side and nested past `MaxDepth` (2), all sizes of a
  header, three of the ends cut.
* `Archive`: every archive of two members, some of three: `MaxMembers` 2, `MaxMember` 3 and
  `MaxTotal` 5 are each hit and passed.
* `Disassembly`: every body of three instructions of each machine, from a choice that has every length and
  those that are misread, whole and cut; and every opcode of the JVM, DEX and IL that an assembler
  emits, by itself and between two short ones, whole and one and two cells short.
* `Encodings`: every value of words of `WordBits` (8) with digits of `Bits` (3), in every length
  up to one beyond `MaxBytes` (3).
* `Imports`: up to three DLLs, bound or not, with and without a lookup table, 32 and 64 bits
  (`pointer`), `MaxDescriptors` 2 and `MaxThunks` 4 passed.
* `References`: sections of up to three items (texts of each encoding, human or not, slots
  whose bytes spell something, numbers that shift what follows), one after another at will;
  `MaxStrings` 3 is hit in either scan and before a second section.
* `FunctionTable`: two adjacent text sections and one of data, every code over six addresses,
  three sources of seeds that repeat and disagree in sizes and names (two names for one address, a name
  that begins with `sub_`, a name without a size before one with), `MaxRecord`, `UnknownLimit`, `MaxSeeds` 3 and
  `MaxDiscovered` 4 hit.

Bounds in the modules: `MaxBlocks`, `MaxInstructions`, `MaxSteps`, `MaxExpression`,
`MaxSeeds`, `MaxDiscovered`, `MaxRecord`, `UnknownLimit`, `MaxEntries`, `MaxNesting`, `MaxDepth`, `MaxMembers`,
`MaxMember`, `MaxTotal`, `MaxBytes`, `MaxDescriptors`, `MaxThunks` and `MaxStrings` stand for constants of the
code, made small; `|Runs|` bounds clicks and command lines; `MaxLength` bounds a block of
`Conditions`; `Modulus`, `Narrow`, `Half`, `WordBits`, `Bits` and `Wide` are widths of numbers. Objects nest up to
`10 * MaxNesting` deep (`Nested`) and prototypes up to `2 * MaxDepth` (`Protos`), past what the readers take. `CHECK_DEADLOCK FALSE`
is set where a behaviour may end: a run that has returned, a function that is
finished, a file that is read.

**Fairness.** `NativeCfg!FairSpec`: the loop is sequential code, so it goes on
while it can. `Gui!Fairness`: the worker is a thread of its own that waits for
nobody, and the window asks for another frame 100 ms later while it is busy
(`gui.rs` 197-202), so the channel is polled again and again. The user is not
fair. A process that aborted does nothing (`Alive`).

## 4. Where the code and its documentation differ

Three runs show a disagreement that TLC refutes; `PROJECT.json` quotes the
documentation they are about.

* `lift_unsplit`: a branch into the middle of a decoded block propagates its values
  to a state that no instruction is printed with. After `mov rcx,1; inc rcx; jne`
  back to the `inc`, `rcx` is printed as the value of its first turn.
* `conditions_test`: `test` is printed like `cmp`, but for a register with itself before
  `je` and `jne`. `test al,1; jne` prints `al != 1`.
* `marshal_nested`: CPython numbers a flagged object when it begins it; `pyc.rs` 186 keeps
  it when it is complete. A flagged tuple that holds a flagged string comes after it,
  and references to either are read as the other.

The rest was met while modelling, and bounds what the properties above say. No
run is about these.

*Native code*

* The loop closed by a branch into a block gets no header, since only starts of
  blocks do (`lift.rs` 875-882): `LoopsMarked` excepts it (`BackIntoMiddle`).
* At a limit, where code overlaps, and where a branch enters a block in its middle, a
  block falls silently into the next one printed: `TextFollowsCode` leaves those out.
* In a function at address 0 the branch to the entry counts as one without target
  (`native.rs` 420): `EdgesExact` leaves such functions out.
* `control_kind` reads the first word of the formatted instruction, so `rep ret`, `bnd jmp`
  and `notrack jmp` are no transfers to it (`native.rs` 416).
* Relocatable objects: every section begins at 0, so their addresses coincide
  (`native.rs` 224).
* A 32-bit register and the 64-bit one around it have one name and one value (`lift.rs` 86-106), and `mov`, `movzx`,
  `movsx` and `movsxd` copy what is known of their source as it is (317-322). After `mov ecx, edi; movsxd rax, ecx` the
  text has `arg0` for `rax`: true of its low half, and of the whole only if the value happens to be small. So
  `SplitValuesHold` speaks of low halves in code that writes any, and of whole registers in code that does not
  (`Precision`); TLC finds the same claim about whole registers violated. What is printed for an operation is
  right in the low half for those whose low half depends on low halves alone, as sums do; `shr` and
  `sar` are not among the operations of the instances. What `movzx` and `movsx` read is a byte or a word, printed as
  it is spelled.
* On 32-bit x86 no register is volatile (`lift.rs` 48-69), so what was in `ecx` and `edx` is printed after a call as
  before it; and `push`, `pop` and `call` leave the value of the stack pointer standing. `Followed` leaves such calls out, and
  the stack pointer is not modelled.
* Arithmetic on `al` and its like, and `mul`, leave the value of `rax` standing (`lift.rs`
  333): `SplitValuesHold` is about functions without such writes (`Followed`).
* A block that `MAX_INSTRUCTIONS` cuts short has no edge to the next, so a value of another
  path may be printed there (`native.rs` 402): `SplitValuesHold` leaves such functions
  out (`Whole`).
* A propagated register name outlives the register's value (`lift.rs` 319):
  `SplitValuesHold` reads numbers and arguments. Two calls of one function leave one name
  (`lift.rs` 379).
* The comparison outlives the flags (`lift.rs` 887): `ConditionsHold` is about
  comparisons that set the flags last.
* The entry point's record replaces the one of `.pdata`, size included, and a symbol without a size loses its name to
  a later one at its address that has a size (`native.rs` 203-210): `NamesStick` says what stays settled
  and names the exceptions.
* A wide text that follows an ASCII one with no zero word between is joined to its last
  bytes and has no string under its own address (`lift.rs` 603-636); a text that ends its
  section without a zero is dropped (575-601). `OperandsNamed` is about texts that are set apart.
* `[rsp-8]` and `[rsp+8]` are both `stack_8`, `[rsp]` is `stack_00` and `[rsp+0]` is `stack_0`, and a
  slot of `rsp` keeps its name when a push has moved it (`lift.rs` 183-201).
* `pe.rs` 166 walks descriptors by file offset, past the end of their section.

*Pipeline and window*

* Two command lines without `--force` overwrite each other (`decompile.rs` 57 and 212):
  `KeepsWithoutForce` is about a run whose output no other run names, and that the user
  does not edit once it is checked.
* `app.exe` and `app.dll` share one automatic output (`decompile.rs` 40).
* Typing over the input leaves the automatic output of the old one in its field (`gui.rs` 238-241), until something is
  detected, and a file that is not recognized leaves what was there: `AutoOutputFresh` says whose output
  it then is.
* Decompile replaces the output the user chose by the automatic one (`gui.rs` 131), and
  Open output opens what the field names now (`gui.rs` 187).
* A native PE image with the bytes `BSJB` goes to the .NET engine and fails there; a class
  file under another name is taken for a Mach-O file (`detect.rs` 134, 194).
  `SentToItsEngine` leaves both out.

*Other engines*

* LEB128 numbers beyond 32 bits lose their high bits (`mod.rs` 103).
* Names in a JAR that differ only in what `safe_name` or `trim_end_matches` takes away are
  written over each other, and so are dex files of an APK with one base name
  (`dex.rs` 659): `WholeOrRefused` is about other names.
* `dotnet.rs` 486 has no operand for `ldftn`, `ldvirtftn`, `unbox`, `ldelema`, `ldelem`, `stelem`,
  `unbox.any`, `refanyval`, `mkrefany`, `unaligned.` and `no.`; the listing after one is out of step. So is
  one after a `switch` that is cut off within its count. The payloads of DEX switches and arrays are
  listed as code (`dex.rs` 545). `InstructionsInStep` claims nothing behind the first of these (`Misread`).
* `pyc.rs` ignores `EXTENDED_ARG` and prints long digits as hexadecimal; the layout it reads
  for Python 3.3-3.7 has a word that those versions do not write (258-261); which of four
  layouts a file has is found by trying them in turn (551).
* `luac` nests prototypes to depth 200, the reader to 100 (`lua.rs`).
* `cp_text` follows references of the constant pool with no bound (`jvm.rs` 31); no compiler
  writes a cycle.

## 5. Proofs

Every theorem holds for every value of the constants its module's named assumptions
allow: any function and instruction set, any graph, any image and layout of sections,
any limits, any number of clicks.

**`NativeLiftProofs`**, of the graph (`NativeCfg`): the type
invariant, the partition of decoded instructions into blocks, straight lines,
starts taken once, the limits; the edges for functions that do not begin at 0; and
that a graph finished below the limits holds exactly the instructions reachable
from the entry. `IInv` adds what the algorithm keeps to itself: the
open block's chain (`LocalsInv`, `ChainInv`), which instructions are held
(`HeldInv`), that what is queued is pending, open or finished (`QueueInv`), and that
everything seen lies in every closed set (`LeastInv`). The reachability theorem
is the last two together: at the end nothing is pending, so the decoded set is
closed, and it is least by `LeastInv`. `Refinement` shows that the recovery implements `Search`:
a step that decodes visits one node, found over an edge from those visited (`SeenKept`: whatever
waits, is about to be queued or is decoded next is where decoded instructions lead); the end of
the work list below the limits finishes it (`NothingLeft`). That no start is taken up twice
(`StartsAreTakenOnce`) is what allows `blocks` to be a function of addresses.

Whatever searches the flow of control, in any order, has when it is finished visited the least
set that holds the entry and is closed under it (`FindsReachable`). And whatever the limits,
a function that has bytes has a block at its address in the end (`FirstBlock`): the code hands the
first of the sorted blocks to the data flow as the entry.

**`ReadableText`**, in the same module, from the invariants of the graph. *The text goes
where the code goes* (`TextIsCode`): the instructions of a block ascend without a gap, so if no
instruction reaches over the start of a block, then where a block ends and
control goes on there is a block, and it is the least one above, which is the next in
the text (functions at address 0 are left out, as for the edges). *Loops are marked*
(`LoopsAreMarked`): of a set of instructions among which control can stay, take the highest block that holds
one. Within a block control only goes up, so it passes the last instruction, and goes on in the set, in this
block or one below. If it arrives in the middle of one, the set is excepted; if not, it arrives at a first
instruction, the edge to it is there (`ExactEdges`), and it leads back.

**`LiftProofs`**, for every graph, register file and bound: types, `Stable`,
`StepBound`, `Weakening`, and that a limit of at least
`|Addresses| * (|Registers| + 1)` is never reached. The invariant counts tokens:
an address has one token for its first state and one for each register unbound in
it; queueing an address spends a token no one spent before, so `steps +
Len(queue)` is at most the number spent (`BudgetInv`). The code has 16 registers
and at most 1 + 2 * 4096 addresses with a state, so 139 281 steps at most, below
its limit of 200 000. `MergeInv` is what `Stable` needs while a block's successors
are being merged: those done already are below the state being merged, and the
block was run from its present state or is queued again (a block may be its own
successor). `Solved` says what the result is worth to its reader: what a block has made is
`RunTo`, its instructions applied one by one to the state it was run from (`RunInv`); the first
block never promises more than the arguments (`EntryInv`); at the end the work list is empty
(`DoneInv`), and nothing has a state but blocks and their successors (`ReachedInv`).

**`NativeLiftProofs`**, of the values: *a value that is printed is true* (`ValuesAreTrue`), for every function,
instruction set, register file and ABI, every width of registers and bound on
expressions. The argument puts the three layers side by side. The composition runs the
recovery as it is (`RecoversGraph`), so the theorems above about the graph hold in it. The
analysis is `LiftProofs`' of that very graph (`SolvesGraph`): the graph is a legal input
(`GraphIsInput`), it stands still while it is analysed, and it has at most `MaxBlocks` addresses
with a state when every branch leads to a block, so with a step for each block
and register the limit is not reached (`RoomInv`; the code's 200 000 exceeds 4096 * 17).
Numbers are compared as far as the text can be right about them (`Precision`): a copy of the low half, with zeros or
the sign above it, leaves that half as it was (`WrittenAgrees`), and a sum's low half is the sum
of low halves (`SumAgrees`), which are facts about remainders of remainders.
The invariant of the machine is `SoundInv`: it stands at some instruction of some block, and every
number and argument in the state that the block's `RunTo` has there says what the register
holds. A call establishes it, since the first block's state is at most the arguments
(`CallSound`); an instruction keeps it, since what `apply_state` makes of a sound state is sound for
every result the instruction may have (`ApplySound`), and where control leaves the block the edge
is there (`ExactEdges`) and the successor's state promises no more (`EdgesWeaken`).
What the text shows is that state and no other, as no instruction is printed at two places
(`OnePlace`). The theorem's hypotheses are that the function does not begin at 0 and that the
limit leaves room; the property itself is about functions whose branches lead to blocks
(`Split`), of which no block is cut short (`Whole`), and whose writes and calls `apply_state` follows
(`Followed`). The first is shown to matter by `lift_unsplit`; section 4 says why the others are there.

**`ConditionsProofs`**: *a condition reads as the processor decides* (`ConditionsAreRight`), for
registers of every even number of values and blocks of every length. While no other instruction has
set them, the flags are those of the values last compared (`FlagsInv`); that `<` on the printed
numbers is then `cf`, and `signed <` is `sf # of`, is arithmetic about differences modulo
`2 * Half`, one case for each pair of signs. For `test` of a register with itself it takes that `v & v`
is `v`, by the least `v` for which it would not be.

**`PipelineProofs`** has what `CliProofs` and `GuiProofs` share: lemmas for any number of
runs, any tree to begin with, any names in an archive, any outputs, and faults of any
operation. `Typed` says that the disk is a tree of well-formed things (`GoodDisk`), and of a
run how far it can have got in each stage (`GoodRun`): it has read something a path may hold,
so `KindOf` finds a kind; it writes only what an engine accepted, and the names it has used
were safe. *A safe name stays below* (`ResolveSafe`): if a name has no unsafe component, then
walking it from a directory appends it, by taking the least component that would not.
*Every step leaves a tree* and *changes nothing beyond its output but to make the directories
above it* (`RunSteps`: `StepIsGood` with its `Footprint`; `create_dir_all` stops at the first
file in its way, `remove_dir_all` takes whole subtrees, a write needs its directory). `Output`
says what is under the output of a run in each of its stages: nothing once it is prepared, then the
files written so far with the text of the last one of each name, at most one of them torn
if a write failed. It is a fact about the part of the disk at or below the output alone (`OutputLocal`), and the
run's own steps keep it (`OwnStep`).

**`CliProofs`**: `TypeOK` (the disk stays a tree) and `Confined` follow from `Typed`. `OutputExact` and
`FailureLeavesPrefix` need `Progress`: each run nobody disturbed has its `Output`. Others cannot
disturb it: their footprint is their own output and the directories above, and what is under the
output of the run is neither, unless the outputs overlap (`OthersKeep`). *Nothing is lost
without `--force`* (`KeepsFiles`): when a run has passed the check its output is absent, so all that is
there later is its own.

**`GuiProofs`**: `OneJob` (a run goes on exactly while the window is busy with it, and there is
never a second) and `AutoOutputFresh` (`OutputIsFresh`): an output the window made is named for the file and kind it
was made from and the format on the screen. Each handler that changes the format or the kind makes the
output anew; the one for the typed input does not, so the invariant follows the file the output was made for, and says
when that is the input. A job starts with the output of its own file. *The preview is of the result* (`PreviewIsTrue`): only one job ever runs, so
its `Output` holds until the channel is read, and the window reads it by the job's own record
and not by its fields. *The input is kept* (`InputIsKept`): the automatic output is never the input and
neither lies below the other (`AnotherName`: the two are in one directory, and the name that
`default_output` makes has more parts than the input's, or ends in `-decompiled` where that does not), so the footprint of the job
misses its input, although it runs with `force`.

**`ReaderProofs`** and **`EngineProofs`**. `ReaderProofs` has what is proved of the four readers of
`Readers` by themselves, the invariant of each and that its steps keep it. `EngineProofs` has the same of
`FunctionTable`, `Detection` and `Disassembly`, and says all of it of `AnySpec`, the specification that TLC
runs: while one part is at work its invariant holds, and no other touches its state. `Readers` is
apart from `Engines` so that the longest proofs need not carry the definitions of all.

*Discovery* (`CallsLeadSomewhere`, `SizesFit`, `NamesAreKept`). Discovery is
a search, and `SearchInv` says what a search keeps: whoever is known and no longer
queued has all its calls known. When it ends below its limit, calls are closed; the sizes
inferred then only take bytes away from a function, so the calls it is
printed with are among those followed before. That `functions` lists the table in the order of addresses, each
function once, is a lemma about ranks: the function at an index is the one
with so many below it. `NamesStick` goes through the sources of records: a size comes with another name only
from a symbol, since a record of `.pdata` has no name and the entry point and calls have no
size. The types of `FunctionTable` are a
theorem only; no run repeats them.

What is said of data of any length rests on two lemmas that name no operator: a property that holds
at 0 and passes from each number to the next holds of all (`Induction`, from the least number of which
it fails), and a step applied again and again is a function (`Iterated`), so what a definition like
`Laid`, `MethodsOf`, `SafeName` or `Sizes` says of `n` and `n - 1` is what it is.

*A class is read back* (`DexReadBack`). The reader of class data keeps two numbers, where it
stands and the number of the last method; `DexInv` ties them to what was written: in the
list being read, `m` methods in, it stands three numbers further for each of them, behind two for each field, and
the running number is that of method `m`, 0 before the first and 0 again when the virtual methods begin.
What has been printed is then the selection, among the first `n` methods of both lists, of
those that are the class's own (`Own`, a function of `n`, which a step of the reader extends by one), and
each has the code that stands beside its number. Data that is cut lacks exactly its last
number, so the reader can begin the last method and not finish it: a cut class is never
printed, and no class after it.

*The types of an assembly are read back* (`MetadataReadBack`). `NetInv` says that the reader stands
before each table where that table was written. The size by which it skips a table is the size of the
table's columns, and the width it takes an index to have is the one the writer gave it: each asks
whether all tables the index may lead to have fewer rows than fit, whatever order they are named in. So
a row is found where it lies, and what is read from it is its number and, of a type, the
number of its first method. The first methods of two types in a row are as far apart as the first of them has
methods, and the last type's end with the table, so what is printed of a type is its own. A file that is
cut ends within some table; the reader skips or reads the tables before and stops at that one.

*A class file is read back* (`ClassIsReadBack`). `ClassInv` says that the pool read so far is what the first
`pos - 1` constants fill, each under the number the format gives it. These numbers ascend by one or
two (`NumbersAscend`), so no two constants share one and a name is found under its number (`NameHeld`).
Behind the pool the reader stands where the sizes of the parts before put the next one: of the fields
it has read `n`, of the methods `n`, and of the last of these so many attributes; and what it has made is the
names of those and, once its Code attribute is behind, the body of each. That skipping an attribute ends where
the attribute does (`Skips`), through nested ones too, is an induction over their number. A file that is
cut lacks its last number, so one of the reads passes the end and the class is never done; a length one
short is seen at the attribute that states it, because the parts of that fill it exactly.

*A file is sent to its engine* (`FilesSent`): when rule `pos` is tried, no rule before it holds (`DetectInv`); the
rules are then gone through for each tool.
*A listing is in step* (`ListingInStep`): an instruction of the assembler lies whole in the code
before the next begins (`LaidOut`, `LaidFirst`); the code's tables give each opcode the length
its format does, but for those of `Misread` (`JvmTable`, `DexTable`, `ILTable`); and whatever is missing at the
end, the cells that tell a length are there or the listing is at its end (`GoesOn`). So the listing goes from each
start to the next, as long as it has passed nothing it misreads (`ListingInv`: up to there what is
printed are the first of the starts, and `pos` is the one after, or past the end).
*An archive is whole or refused* (`ArchiveWhole`): `ArchiveInv` says that what has been passed is within
the limits and why it was stopped; `Output`, that each class passed has its place in the order
of the archive (`Counting`: how many were chosen before it), each dex is waiting or has a file under
its name, and no part of a name climbs (`SafeNameIs`).
What these theorems take of their inputs are `ClassesAssumption`, `ProgramsAssumption`, `AssembliesAssumption`,
`ArchivesAssumption`, `FilesAssumption` and `BodiesAssumption`: what the tools of the formats write, never what the
reader makes of it. `Readers` assumes the first four (`InputAssumption`) and `Engines` the last two
(`PartsAssumption`), so TLC evaluates them on its instances.

Two of the proofs failed until the model was right. `LanguageOf` was a `CASE`, whose arms may overlap and are
then in no order; the code asks in an order. The error for a pool that ends in the middle of a long constant had the
name of the phase of reading the pool, so that such a class never counted as ended and its refusal was
not checked.

**Only model-checked.** Liveness (`Termination`, `BusyEnds`): the provers do not reach
fairness. `MarshalReadsBack` and `PrototypesReadBack`: what they compare with is defined by recursion over
trees (`Inside`, `Listed`), of which nothing can be proved for every tree without an
induction theorem. `NumbersReadBack` is about sums of powers of two, of whose arithmetic the provers know
nothing. `SlotsNamed` and `OperandsNamed` compare what was written with what was
read over encodings of any length, written with folds and selections of sequences, whose
properties are inductions as well. For `ClassFile`, `Dex`, `Metadata`, `Archive` and `Disassembly` such a recursion was
written as a function of a number, of which the two lemmas above speak; these two would need the same.

## 6. Not modelled

* WebAssembly (`wasm.rs`, one call of a library), the tables of `i18n.rs` and
  `capabilities.rs`, the release workflow.
* The wording and layout of every output; the lists of strings and hexdumps that the
  engines fall back on.
* Native: the walk over the bytes of `.pdata`, the AArch64 decoder, relocatable
  objects; the names of direct calls; texts of more than 4096 bytes and white space in them;
  stack slots, hidden prologues and epilogues (`lift.rs` 175-204, 695-735). References exist for
  64-bit x86 operands relative to `rip` only, and the model has no others. The decoder of
  instructions is a library.
* JVM: descriptors, modifiers, what operands are printed as. DEX: strings, prototypes and the
  names of types. .NET: PE and stream headers, signatures. CPython: the choice among
  four layouts, the text of constants. Lua: the report on versions other than 5.1.
* Symbolic links, the start of the file manager, fonts and layout, the language switch.
* `detect`, `doctor` and `gui` of the command line, which change nothing.

## 7. Plan

Done, in this order: `NativeCfg` with its proofs; `Decompile`, `Cli`, `Gui`;
`SymbolicState`, `Lift` with its proofs; `NativeLift`; `Conditions`;
`FunctionTable`; the readers `Marshal`, `Disassembly`, `ClassFile`, `Dex`, `Encodings`,
`Metadata`, `LuaChunk`, `Archive`, `Imports` and `Detection`, composed in `Engines`;
`ReadableText`; the proofs of `ReadableText`, `FunctionTable` and `Gui`; `Search`, its proof and the
refinement; `References`; the proofs of the pipeline and `Cli`, and the rest of `Gui`; the proofs of
`Conditions` and `NativeLift`; the proofs of `Detection`, `Disassembly`, `Archive`, `Dex`, `Metadata` and `ClassFile`.

Left:

1. `Job`: what a job promises (idle, working, the whole output or an error, the old
   output gone from its start), and `Gui` and `Cli` shown to implement it.
2. The choice among the four layouts of `pyc.rs`: that no file of one version is
   read by the layout of another.
3. Proofs about `Imports` and `References`, by an invariant that says how much of the input has
   been read and what was made of it, along the lines of `ReaderProofs`.
4. Relocatable objects in `FunctionTable`, `FunctionTable`
   composed with `NativeCfg`.
