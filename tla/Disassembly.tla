---------------------------- MODULE Disassembly ----------------------------
(***************************************************************************)
(* The disassembly of a method body: code_text of jvm.rs, disassemble_code *)
(* of dex.rs, disassemble_il of dotnet.rs, the wordcode of pyc.rs and the  *)
(* instructions of lua.rs, beside the code as an assembler lays it out.    *)
(*                                                                         *)
(* A cell of code is a byte (of a DEX method the low byte of a 16-bit unit), *)
(* with what it is as the first byte of a number (`number'); operands that *)
(* tell no length are 0.                                                   *)
(* `pos' is pc, counted from 0; `out' holds the addresses that are printed. *)
(***************************************************************************)
EXTENDS Integers, Sequences

CONSTANT Bodies   \* [machine, body, cut]: its instructions, how many cells are missing

VARIABLES input, pos, stack, out, status

vars == <<input, pos, stack, out, status>>

Cell(byte, number) == [byte |-> byte, number |-> number]
Data(n)   == [i \in 1 .. n |-> Cell(0, 0)]
Word(v)   == <<Cell(0, v)>> \o Data(3)
AtLeast(n, m) == IF n >= m THEN n ELSE m

-----------------------------------------------------------------------------
(***************************************************************************)
(* Code as it is assembled, from the formats' specifications.  An          *)
(* instruction is [kind, op, n]: n its length; of a switch its entries, of *)
(* IL the length of the operand.  What a prefix precedes is its op.        *)
(***************************************************************************)
Fixed(kind, ops, n) == [kind : {kind}, op : ops, n : {n}]

\* The JVM's opcodes: an operand is a local variable or a small number (one byte), an
\* index of the constant pool or a branch (two), or more.
LocalIndex == 21 .. 25 \cup 54 .. 58 \cup {169}
PoolIndex  == {19, 20} \cup 178 .. 184 \cup {187, 189, 192, 193}
Branch     == 153 .. 168 \cup {198, 199}
NoOperand  == 0 .. 15 \cup 26 .. 53 \cup 59 .. 131 \cup 133 .. 152 \cup 172 .. 177
              \cup {190, 191, 194, 195}

JvmInstructions ==
  Fixed("plain", NoOperand, 1) \cup Fixed("plain", LocalIndex \cup {16, 18, 188}, 2)
  \cup Fixed("plain", PoolIndex \cup Branch \cup {17, 132}, 3) \cup Fixed("plain", {197}, 4)
  \cup Fixed("plain", {185, 186, 200, 201}, 5)
  \cup [kind : {"tableswitch"}, op : {170}, n : Nat] \cup [kind : {"lookupswitch"}, op : {171}, n : Nat]
  \cup Fixed("wide", LocalIndex, 4) \cup Fixed("wide", {132}, 6)

\* Dalvik's, by the format of the instruction, whose first digit is its units; the
\* tables of switches and arrays stand among the code, each as a nop with data.
Format1 == {0, 14, 18, 39, 40} \cup 10 .. 13 \cup 15 .. 17 \cup {29, 30}
           \cup {1, 4, 7, 33} \cup 123 .. 143 \cup 176 .. 207              \* 1xx
Format2 == {2, 5, 8, 19, 21, 22, 25, 26, 28, 31, 34, 41} \cup 96 .. 109 \cup {254, 255}
           \cup {32, 35} \cup 82 .. 95 \cup 45 .. 49 \cup 68 .. 81 \cup 144 .. 175
           \cup 50 .. 61 \cup 208 .. 226                                    \* 2xx
Format3 == {3, 6, 9, 20, 23, 27, 36, 37, 38, 42, 43, 44} \cup 110 .. 114
           \cup 116 .. 120 \cup {252, 253}                                  \* 3xx

DexInstructions ==
  Fixed("plain", Format1, 1) \cup Fixed("plain", Format2, 2) \cup Fixed("plain", Format3, 3)
  \cup Fixed("plain", {250, 251}, 4) \cup Fixed("plain", {24}, 5)
  \cup [kind : {"payload"}, op : {0}, n : Nat \ {0, 1}]

\* IL's, by the length of the operand: a variable, a small number or a short branch (one
\* byte), a number, a token or a branch (four), or eight.
ILShort == 14 .. 19 \cup {31} \cup 43 .. 55 \cup {222}
ILToken == {39, 40, 41} \cup 111 .. 117 \cup {121} \cup 123 .. 129 \cup {140, 141, 143, 208}
           \cup {163, 164, 165, 194, 198}
ILNone  == 0 .. 13 \cup 20 .. 30 \cup {37, 38, 42} \cup 70 .. 110 \cup {118, 122} \cup 130 .. 139
           \cup {142} \cup 144 .. 162 \cup 179 .. 186 \cup {195} \cup 209 .. 220 \cup {223, 224}

ILInstructions ==
  Fixed("il", ILNone, 0) \cup Fixed("il", ILShort, 1)
  \cup Fixed("il", ILToken \cup {32, 34, 221} \cup 56 .. 68, 4) \cup Fixed("il", {33, 35}, 8)
  \cup [kind : {"switch"}, op : {69}, n : Nat]
  \cup Fixed("prefix", 0 .. 5 \cup {15, 17, 19, 20, 23, 24, 26, 29, 30}, 0)
  \cup Fixed("prefix", {18, 25}, 1) \cup Fixed("prefix", 9 .. 14, 2)
  \cup Fixed("prefix", {6, 7, 21, 22, 28}, 4)

\* The instructions that each machine has; those of Python and of Lua are of one length.
InstructionsOf(machine) ==
  CASE machine = "jvm"    -> JvmInstructions
    [] machine = "dex"    -> DexInstructions
    [] machine = "il"     -> ILInstructions
    [] machine = "python" -> Fixed("plain", 0 .. 255, 2)
    [] machine = "lua"    -> Fixed("plain", 0 .. 255, 4)

Align(pc) == Data((3 - pc) % 4)

Assembled(i, pc) ==
  CASE i.kind \in {"plain", "payload"} -> <<Cell(i.op, 0)>> \o Data(i.n - 1)
    [] i.kind = "tableswitch"  -> <<Cell(i.op, 0)>> \o Align(pc) \o Word(0) \o Word(5)
                                  \o Word(4 + i.n) \o Data(4 * i.n)
    [] i.kind = "lookupswitch" -> <<Cell(i.op, 0)>> \o Align(pc) \o Word(0) \o Word(i.n) \o Data(8 * i.n)
    [] i.kind = "wide"         -> <<Cell(196, 0), Cell(i.op, 0)>> \o Data(i.n - 2)
    [] i.kind = "il"           -> <<Cell(i.op, 0)>> \o Data(i.n)
    [] i.kind = "prefix"       -> <<Cell(254, 0), Cell(i.op, 0)>> \o Data(i.n)
    [] i.kind = "switch"       -> <<Cell(i.op, 0)>> \o Word(i.n) \o Data(4 * i.n)

\* The code of the first n instructions.
Laid(body) ==
  LET code[n \in 0 .. Len(body)] ==
        IF n = 0 THEN <<>>
        ELSE LET before == code[n - 1] IN before \o Assembled(body[n], Len(before))
  IN  code

Code(body)   == Laid(body)[Len(body)]
Starts(body) == [k \in 1 .. Len(body) |-> Len(Laid(body)[k - 1])]

\* Bodies that an assembler makes, cut anywhere.
BodiesAssumption ==
  \A b \in Bodies :
    /\ b.machine \in {"jvm", "dex", "il", "python", "lua"}
    /\ b.body \in Seq(InstructionsOf(b.machine))
    /\ b.cut \in Nat

-----------------------------------------------------------------------------
Size      == Len(input.code)
At(pc)    == input.code[pc + 1]
InCode(n) == n + 3 < Size            \* be_i32(code, n) is Some
Number(n) == At(n).number

\* Mutant: code is aligned where the opcode is.
PaddingHere(pc) == (4 - (pc % 4)) % 4

Padding(pc) == (4 - ((pc + 1) % 4)) % 4

\* fixed_instruction_len of the JVM.
FixedLength(op) ==
  CASE op \in {16, 18} \cup 21 .. 25 \cup 54 .. 58 \cup {169, 188} -> 2
    [] op \in {17, 19, 20, 132} \cup 153 .. 168 \cup 178 .. 184 \cup {187, 189, 192, 193, 198, 199} -> 3
    [] op = 197 -> 4
    [] op \in {185, 186, 200, 201} -> 5
    [] OTHER -> 1

\* instruction_len.
JvmLength(pc) ==
  LET base == pc + 1 + Padding(pc)
  IN  CASE At(pc).byte = 170 ->
             IF ~InCode(base + 4) \/ ~InCode(base + 8) THEN Size - pc
             ELSE 1 + Padding(pc) + 12 + 4 * AtLeast(Number(base + 8) - Number(base + 4) + 1, 0)
        [] At(pc).byte = 171 ->
             IF ~InCode(base + 4) THEN Size - pc
             ELSE 1 + Padding(pc) + 8 + 8 * AtLeast(Number(base + 4), 0)
        [] At(pc).byte = 196 ->
             IF pc + 1 >= Size THEN 1 ELSE IF At(pc + 1).byte = 132 THEN 6 ELSE 4
        [] OTHER -> FixedLength(At(pc).byte)

\* dex_len.
DexLength(op) ==
  CASE op \in {2, 5, 8, 19, 21, 22, 25, 26, 28, 31, 32, 34, 35, 41} \cup 45 .. 61
               \cup 68 .. 109 \cup 144 .. 175 \cup 208 .. 226 \cup {254, 255} -> 2
    [] op \in {3, 6, 9, 20, 23, 27} \cup 36 .. 38 \cup 42 .. 44 \cup 110 .. 114
               \cup 116 .. 120 \cup {252, 253} -> 3
    [] op \in {250, 251} -> 4
    [] op = 24 -> 5
    [] OTHER -> 1

\* operand_len of IL, but for the switch; from 65024 on behind a prefix.
OperandTable(op) ==
  CASE op \in 14 .. 19 \cup {31} \cup 43 .. 55 \cup {222} -> 1
    [] op \in 65033 .. 65038 -> 2
    [] op \in {32, 34} \cup 39 .. 41 \cup 56 .. 68 \cup 111 .. 117 \cup 123 .. 129
               \cup {140, 141, 208, 221, 65045, 65046, 65052} -> 4
    [] op \in {33, 35} -> 8
    [] OTHER -> 0

\* The entries of a switch are counted, if the count is there.
OperandLength(op, pc) ==
  IF op = 69 /\ pc + 4 <= Size THEN 4 + 4 * Number(pc) ELSE OperandTable(op)

\* Where the operand of the instruction at pc begins, and how long it asks to be.
Prefixed(pc)  == At(pc).byte = 254
OperandAt(pc) == IF Prefixed(pc) THEN pc + 2 ELSE pc + 1
Requested(pc) ==
  OperandLength(IF Prefixed(pc) THEN 65024 + At(pc + 1).byte ELSE At(pc).byte, OperandAt(pc))

\* `.min(code.len())': an instruction that is cut off ends with the code.
Clipped(end) == IF end > Size THEN Size ELSE end

\* Where the instruction after the one at pc begins.
NextAt(pc) ==
  CASE input.machine = "jvm" -> Clipped(pc + AtLeast(JvmLength(pc), 1))
    [] input.machine = "dex" -> Clipped(pc + AtLeast(DexLength(At(pc).byte), 1))
    [] input.machine = "il"  -> Clipped(OperandAt(pc) + Requested(pc))
    [] input.machine = "python" -> Clipped(pc + 2)     \* code.chunks(2)
    [] input.machine = "lua"    -> pc + 4              \* read_uint of instruction_size

Init ==
  /\ \E b \in Bodies :
       LET whole == Code(b.body)
       IN  input = [machine |-> b.machine, body |-> b.body, cut |-> b.cut,
                    code |-> SubSeq(whole, 1, AtLeast(Len(whole) - b.cut, 0))]
  /\ pos = 0 /\ stack = <<>> /\ out = <<>>
  /\ status = "reading"

\* An instruction is printed and the next one looked at.
PrintInstruction ==
  /\ status = "reading"
  /\ pos < Size
  /\ input.machine = "il" => OperandAt(pos) <= Size
  /\ input.machine = "lua" => pos + 4 <= Size
  /\ out' = Append(out, pos)
  /\ pos' = NextAt(pos)
  /\ UNCHANGED <<input, stack, status>>

\* A prefix without its second byte ends the listing of an IL body.
EndInPrefix ==
  /\ status = "reading"
  /\ pos < Size
  /\ input.machine = "il"
  /\ OperandAt(pos) > Size
  /\ status' = "done"
  /\ UNCHANGED <<input, pos, stack, out>>

\* A Lua instruction that is cut off is an error of the whole chunk.
Truncated ==
  /\ status = "reading"
  /\ pos < Size
  /\ input.machine = "lua"
  /\ pos + 4 > Size
  /\ status' = "end"
  /\ UNCHANGED <<input, pos, stack, out>>

EndOfCode ==
  /\ status = "reading"
  /\ pos >= Size
  /\ status' = "done"
  /\ UNCHANGED <<input, pos, stack, out>>

Next == PrintInstruction \/ EndInPrefix \/ Truncated \/ EndOfCode

Spec == Init /\ [][Next]_vars

-----------------------------------------------------------------------------
\* What the code takes for something shorter: the tables among the code of a DEX method,
\* which it lists as a nop and more code; eleven operations of IL, as if they had no
\* operand; and a switch of IL that is cut off within its count.
Misread(k) ==
  LET i == input.body[k]
  IN  \/ i.kind = "payload"
      \/ i.kind = "il" /\ i.op \in {121, 143, 163, 164, 165, 194, 198}
      \/ i.kind = "prefix" /\ i.op \in {6, 7, 18, 25}
      \/ i.kind = "switch" /\ Size \in Starts(input.body)[k] + 2 .. Starts(input.body)[k] + 4

InStep(k) == \A j \in 1 .. Len(input.body) : j < k => ~Misread(j)

\* Whatever stands before it, each instruction is printed at the address where the
\* assembler put it, and no operand, padding or table of a switch is taken for an
\* instruction, up to and with the first instruction that the code misreads (Misread), and
\* in the whole body if there is none; of code that is cut off the instructions before
\* the end are printed so.
InstructionsInStep ==
  /\ \A k \in 1 .. Len(out) :
       InStep(k) => k <= Len(input.body) /\ out[k] = Starts(input.body)[k]
  /\ status = "done" /\ input.cut = 0 =>
       \A k \in 1 .. Len(input.body) : InStep(k) => k <= Len(out)
=============================================================================
