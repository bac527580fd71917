------------------------------ MODULE LuaChunk ------------------------------
(***************************************************************************)
(* Reading a Lua 5.1 chunk: decompile_lua51 and parse_lua51_function of    *)
(* src/src/engines/lua.rs, beside the chunk as luac dumps it.              *)
(*                                                                         *)
(* A chunk is a sequence of items: integers (of the header's int size),    *)
(* strings, instructions, constants, and runs of `len' bytes.  `stack' is  *)
(* the calls of parse_lua51_function that are open: the part of the        *)
(* prototype that comes next and how many of it are left.                  *)
(***************************************************************************)
EXTENDS Integers, SequencesExt

CONSTANTS
  Chunks,    \* [sizes, main, cut]
  MaxDepth   \* 100

VARIABLES input, pos, stack, out, status

vars == <<input, pos, stack, out, status>>

-----------------------------------------------------------------------------
(***************************************************************************)
(* ldump.c: a prototype is [name, code, constants, protos, lines, locals,  *)
(* upvalues], the last three of them counts.                               *)
(***************************************************************************)
Count(n)  == [item |-> "int", value |-> n]
Text(s) == [item |-> "string", value |-> s]
Bytes(n) == [item |-> "bytes", value |-> n]
Times(n, items) == FlattenSeq([i \in 1 .. n |-> items])

\* Prototypes, nested as deep as luac nests them: twice the limit of the reader.
Protos ==
  LET within[n \in Nat] ==
        [name : STRING, code : Seq(STRING), constants : Seq(STRING), lines : Nat, locals : Nat, upvalues : Nat,
         protos : Seq(IF n = 0 THEN {} ELSE within[n - 1])]
  IN  within[2 * MaxDepth]

Dumped(main, intSize) ==
  LET dumped[p \in Protos] ==
        <<Text(p.name), Count(1), Count(9), Bytes(4), Count(Len(p.code))>>
          \o [i \in DOMAIN p.code |-> [item |-> "instruction", value |-> p.code[i]]]
          \o <<Count(Len(p.constants))>> \o [i \in DOMAIN p.constants |-> [item |-> "constant", value |-> p.constants[i]]]
          \o <<Count(Len(p.protos))>> \o FlattenSeq([i \in DOMAIN p.protos |-> dumped[p.protos[i]]])
          \o <<Count(p.lines)>> \o Times(p.lines, <<Bytes(intSize)>>)
          \o <<Count(p.locals)>> \o Times(p.locals, <<Text("local"), Bytes(intSize), Bytes(intSize)>>)
          \o <<Count(p.upvalues)>> \o Times(p.upvalues, <<Text("upvalue")>>)
  IN  dumped[main]

\* What is to be printed: the prototypes as they are met, with how deep they are.
Listed[p \in Protos, depth \in Nat] ==
  <<[name |-> p.name, depth |-> depth, code |-> p.code, constants |-> p.constants]>>
    \o FlattenSeq([i \in DOMAIN p.protos |-> Listed[p.protos[i], depth + 1]])

Depth[p \in Protos] == Max({0} \cup {Depth[p.protos[i]] + 1 : i \in DOMAIN p.protos})

KnownConstants(main) ==
  \A i \in DOMAIN Listed[main, 0] : "unknown" \notin ToSet(Listed[main, 0][i].constants)

-----------------------------------------------------------------------------
Init ==
  /\ \E c \in Chunks :
       LET dumped == Dumped(c.main, c.sizes.int)
       IN  input = [sizes |-> c.sizes, main |-> c.main, cut |-> c.cut,
                    items |-> SubSeq(dumped, 1, Len(dumped) - c.cut)]
  /\ pos = 1 /\ stack = <<>> /\ out = <<>>
  /\ status = "header"

Fail(error) == status' = error /\ UNCHANGED <<input, pos, stack, out>>

Top  == Last(stack)
Item == input.items[pos]
Has(item) == pos <= Len(input.items) /\ Item.item = item

SizesKnown == /\ {input.sizes.int, input.sizes.text, input.sizes.number} \subseteq {4, 8}
              /\ input.sizes.instruction = 4

\* A new call, to be at the source name.
Opened(calls) == Append(calls, [part |-> "name", left |-> 0])

ReadHeader ==
  /\ status = "header"
  /\ SizesKnown
  /\ status' = "reading"
  /\ stack' = Opened(<<>>)
  /\ UNCHANGED <<input, pos, out>>

BadLayout ==
  /\ status = "header"
  /\ ~SizesKnown
  /\ Fail("layout")

At(part) == status = "reading" /\ Top.part = part
TooDeep  == Len(stack) - 1 > MaxDepth
Goto(part, left) == Append(Front(stack), [part |-> part, left |-> left])

NestedTooDeep == At("name") /\ TooDeep /\ Fail("depth")

\* The source name, the lines, four bytes, and how many instructions there are.
BeginPrototype ==
  /\ At("name")
  /\ ~TooDeep
  /\ pos + 4 <= Len(input.items)
  /\ Has("string") /\ input.items[pos + 4].item = "int"
  /\ out' = Append(out, [name |-> Item.value, depth |-> Len(stack) - 1, code |-> <<>>, constants |-> <<>>])
  /\ stack' = Goto("code", input.items[pos + 4].value)
  /\ pos' = pos + 5
  /\ UNCHANGED <<input, status>>

\* The parts of a prototype, in their order.
NextPart(part) == CASE part = "code" -> "constants" [] part = "constants" -> "protos"
                    [] part = "protos" -> "lines" [] part = "lines" -> "locals"
                    [] part = "locals" -> "upvalues"

\* Mutant: the line numbers are skipped four bytes each.
FourBytes(n) == n * 4

LineBytes(n) == n * input.sizes.int

ReadInstruction ==
  /\ At("code") /\ Top.left > 0
  /\ Has("instruction")
  /\ out' = [out EXCEPT ![Len(out)].code = Append(@, Item.value)]
  /\ stack' = Goto("code", Top.left - 1)
  /\ pos' = pos + 1
  /\ UNCHANGED <<input, status>>

ReadConstant ==
  /\ At("constants") /\ Top.left > 0
  /\ Has("constant") /\ Item.value # "unknown"
  /\ out' = [out EXCEPT ![Len(out)].constants = Append(@, Item.value)]
  /\ stack' = Goto("constants", Top.left - 1)
  /\ pos' = pos + 1
  /\ UNCHANGED <<input, status>>

UnknownConstant ==
  /\ At("constants") /\ Top.left > 0
  /\ Has("constant") /\ Item.value = "unknown"
  /\ Fail("constant")

\* parse_lua51_function calls itself for a nested prototype.
BeginNested ==
  /\ At("protos") /\ Top.left > 0
  /\ stack' = Opened(Goto("protos", Top.left - 1))
  /\ UNCHANGED <<input, pos, out, status>>

\* reader.skip: as many items as there are bytes to skip, if they end with an item.
Skipped(bytes) ==
  LET Sum[n \in 0 .. Len(input.items)] ==
        IF n < pos THEN 0 ELSE Sum[n - 1] + (IF input.items[n].item = "bytes" THEN input.items[n].value ELSE 1)
      ends == {n \in pos - 1 .. Len(input.items) : Sum[n] = bytes}
  IN  IF ends = {} THEN Len(input.items) + 2 ELSE 1 + CHOOSE n \in ends : TRUE

SkipLines ==
  /\ At("lines") /\ Top.left > 0
  /\ Skipped(LineBytes(Top.left)) <= Len(input.items) + 1
  /\ pos' = Skipped(LineBytes(Top.left))
  /\ stack' = Goto("lines", 0)
  /\ UNCHANGED <<input, out, status>>

SkipLocal ==
  /\ At("locals") /\ Top.left > 0
  /\ Has("string") /\ pos + 2 <= Len(input.items)
  /\ pos' = pos + 3
  /\ stack' = Goto("locals", Top.left - 1)
  /\ UNCHANGED <<input, out, status>>

SkipUpvalue ==
  /\ At("upvalues") /\ Top.left > 0
  /\ Has("string")
  /\ pos' = pos + 1
  /\ stack' = Goto("upvalues", Top.left - 1)
  /\ UNCHANGED <<input, out, status>>

\* A part is read; the count of the next one follows.
ReadCount ==
  /\ status = "reading" /\ Top.part \notin {"name", "upvalues"} /\ Top.left = 0
  /\ Has("int")
  /\ stack' = Goto(NextPart(Top.part), Item.value)
  /\ pos' = pos + 1
  /\ UNCHANGED <<input, out, status>>

EndPrototype ==
  /\ At("upvalues") /\ Top.left = 0
  /\ stack' = Front(stack)
  /\ status' = IF Len(stack) = 1 THEN "done" ELSE "reading"
  /\ UNCHANGED <<input, pos, out>>

Truncated ==
  /\ status = "reading"
  /\ \/ At("name") /\ ~TooDeep /\ pos + 4 > Len(input.items)
     \/ Top.left > 0 /\ Top.part \notin {"name", "protos", "lines"} /\ pos > Len(input.items)
     \/ At("locals") /\ Top.left > 0 /\ pos <= Len(input.items) /\ pos + 2 > Len(input.items)
     \/ At("lines") /\ Top.left > 0 /\ Skipped(LineBytes(Top.left)) > Len(input.items) + 1
     \/ Top.part \notin {"name", "upvalues"} /\ Top.left = 0 /\ pos > Len(input.items)
  /\ Fail("end")

Next ==
  \/ ReadHeader \/ BadLayout
  \/ NestedTooDeep \/ BeginPrototype \/ ReadInstruction \/ ReadConstant \/ UnknownConstant
  \/ BeginNested \/ SkipLines \/ SkipLocal \/ SkipUpvalue \/ ReadCount \/ EndPrototype
  \/ Truncated

Spec == Init /\ [][Next]_vars

-----------------------------------------------------------------------------
\* A chunk is printed as it was compiled: every prototype, each under the ones that
\* contain it and with its own instructions and constants, whatever debug information
\* stands between them and in whatever layout the header allows; a chunk that is cut
\* off, nested deeper than the limit, or holds a constant of no type is refused.
PrototypesReadBack ==
  status \notin {"header", "reading"} =>
    IF /\ SizesKnown /\ input.cut = 0
       /\ Depth[input.main] <= MaxDepth /\ KnownConstants(input.main)
    THEN status = "done" /\ out = Listed[input.main, 0]
    ELSE status # "done"
=============================================================================
