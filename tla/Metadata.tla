------------------------------ MODULE Metadata ------------------------------
(***************************************************************************)
(* The metadata tables of a .NET assembly: parse_tables, the widths of its *)
(* indices, and the methods of each type in decompile_dotnet of            *)
(* src/src/engines/dotnet.rs, beside the tables as ECMA-335 lays them out. *)
(*                                                                         *)
(* A cell is a byte: the first byte of a number holds [width, value], the  *)
(* others `Rest'.  `out' holds the rows recovered and the types printed;   *)
(* `pos' is the cursor, and then the type that is printed.                 *)
(***************************************************************************)
EXTENDS Integers, SequencesExt

CONSTANTS
  Assemblies,  \* [types, rows, heaps, cut]: types with the number of their methods
  Wide         \* bits of a narrow index: 16 in the format

VARIABLES input, pos, stack, out, status

vars == <<input, pos, stack, out, status>>

Rest == [width |-> 0, value |-> 0]
Number(width, value) == <<[width |-> width, value |-> value]>> \o [i \in 1 .. width - 1 |-> Rest]

-----------------------------------------------------------------------------
(***************************************************************************)
(* ECMA-335 II.22 and II.24.2.6: the columns of the tables up to MethodDef. *)
(***************************************************************************)
Columns(table) ==
  CASE table = 0 -> <<"2", "string", "guid", "guid", "guid">>
    [] table = 1 -> <<"scope", "string", "string">>
    [] table = 2 -> <<"4", "string", "string", "parent", "field", "method">>
    [] table = 3 -> <<"field">>
    [] table = 4 -> <<"2", "string", "blob">>
    [] table = 5 -> <<"method">>
    [] table = 6 -> <<"4", "2", "2", "string", "blob", "param">>

\* The tables an index may lead to, and the bits that say which of them.
Reaches == [field |-> <<4>>, method |-> <<6>>, param |-> <<8>>,
            parent |-> <<2, 1, 27>>, scope |-> <<0, 26, 35, 1>>]
TagBits == [field |-> 0, method |-> 0, param |-> 0, parent |-> 2, scope |-> 2]

\* How many methods the first n types have together.
MethodsOf(a) ==
  LET count[n \in 0 .. Len(a.types)] == IF n = 0 THEN 0 ELSE count[n - 1] + a.types[n].methods
  IN  count

Rows(a, table) == IF table = 2 THEN Len(a.types)
                  ELSE IF table = 6 THEN MethodsOf(a)[Len(a.types)]
                  ELSE IF table \in DOMAIN a.rows THEN a.rows[table] ELSE 0

WidthOf(a, column) ==
  CASE column = "2" -> 2
    [] column = "4" -> 4
    [] column \in {"string", "guid", "blob"} -> IF column \in a.heaps THEN 4 ELSE 2
    [] OTHER -> IF \A i \in DOMAIN Reaches[column] :
                      Rows(a, Reaches[column][i]) < 2 ^ (Wide - TagBits[column])
                THEN 2 ELSE 4

\* What row r says in a column: its own number, and of a type its first method's.
FirstMethod(a, r) == 1 + MethodsOf(a)[r - 1]
ValueOf(a, table, r, column) == IF column = "method" /\ table = 2 THEN FirstMethod(a, r) ELSE r

Row(a, table, r) ==
  FlattenSeq([c \in DOMAIN Columns(table) |->
    Number(WidthOf(a, Columns(table)[c]), ValueOf(a, table, r, Columns(table)[c]))])

Tables(a) == FlattenSeq([t \in 1 .. 7 |-> FlattenSeq([r \in 1 .. Rows(a, t - 1) |-> Row(a, t - 1, r)])])

-----------------------------------------------------------------------------
Count(table) == Rows(input.assembly, table)
HeapSize(heap) == IF heap \in input.assembly.heaps THEN 4 ELSE 2

TableIndexSize(table) == IF Count(table) < 2 ^ Wide THEN 2 ELSE 4

\* Mutant: the tag takes no bits of a coded index.
UntaggedSize(tables, tagBits) == IF \A t \in tables : Count(t) < 2 ^ Wide THEN 2 ELSE 4

CodedIndexSize(tables, tagBits) ==
  IF \A t \in tables : Count(t) < 2 ^ (Wide - tagBits) THEN 2 ELSE 4

RowSize(table) ==
  CASE table = 0 -> 2 + HeapSize("string") + HeapSize("guid") * 3
    [] table = 1 -> CodedIndexSize({0, 1, 26, 35}, 2) + HeapSize("string") * 2
    [] table = 2 -> 4 + HeapSize("string") * 2 + CodedIndexSize({2, 1, 27}, 2)
                      + TableIndexSize(4) + TableIndexSize(6)
    [] table = 3 -> TableIndexSize(4)
    [] table = 4 -> 2 + HeapSize("string") + HeapSize("blob")
    [] table = 5 -> TableIndexSize(6)
    [] table = 6 -> 4 + 2 + 2 + HeapSize("string") + HeapSize("blob") + TableIndexSize(8)

\* read_index; 0 stands for what is read where no number of that width begins.
Read(at, width) == IF input.bytes[at].width = width THEN input.bytes[at].value ELSE 0

Init ==
  /\ \E a \in Assemblies :
       input = [assembly |-> a, bytes |-> LET all == Tables(a) IN SubSeq(all, 1, Len(all) - a.cut)]
  /\ pos = 1
  /\ stack = <<0, 1, 2, 3, 4, 5, 6>>          \* the tables left
  /\ out = [types |-> <<>>, methods |-> <<>>, printed |-> <<>>]
  /\ status = "tables"

Table == Head(stack)
End   == pos + Count(Table) * RowSize(Table)
Fits  == status = "tables" /\ stack # <<>> /\ End <= Len(input.bytes) + 1

SkipTable ==
  /\ Fits
  /\ Table \notin {2, 6}
  /\ pos' = End
  /\ stack' = Tail(stack)
  /\ UNCHANGED <<input, out, status>>

ReadTypes ==
  /\ Fits
  /\ Table = 2
  /\ LET string == HeapSize("string")
         size   == 4 + 2 * string + CodedIndexSize({2, 1, 27}, 2) + TableIndexSize(4) + TableIndexSize(6)
         row(r) == pos + (r - 1) * size
         list   == size - TableIndexSize(6)
     IN  /\ out' = [out EXCEPT !.types = [r \in 1 .. Count(2) |->
                      [name |-> Read(row(r) + 4, string), first |-> Read(row(r) + list, TableIndexSize(6))]]]
         /\ pos' = pos + Count(2) * size
  /\ stack' = Tail(stack)
  /\ UNCHANGED <<input, status>>

ReadMethods ==
  /\ Fits
  /\ Table = 6
  /\ LET size == 4 + 2 + 2 + HeapSize("string") + HeapSize("blob") + TableIndexSize(8)
     IN  /\ out' = [out EXCEPT !.methods = [r \in 1 .. Count(6) |->
                      Read(pos + (r - 1) * size + 8, HeapSize("string"))]]
         /\ pos' = pos + Count(6) * size
  /\ stack' = Tail(stack)
  /\ UNCHANGED <<input, status>>

Truncated ==
  /\ status = "tables" /\ stack # <<>>
  /\ End > Len(input.bytes) + 1
  /\ status' = "end"
  /\ UNCHANGED <<input, pos, stack, out>>

EndOfTables ==
  /\ status = "tables" /\ stack = <<>>
  /\ status' = "types"
  /\ pos' = 1
  /\ UNCHANGED <<input, stack, out>>

\* saturating_sub
Less1(n) == IF n = 0 THEN 0 ELSE n - 1

\* Where the methods of the type end: where the next one's begin, or with the table.
EndOfMethods(t) ==
  LET next == IF t < Len(out.types) THEN Less1(out.types[t + 1].first) ELSE Len(out.methods)
  IN  IF next < Len(out.methods) THEN next ELSE Len(out.methods)

\* `methods.get(start..end)', empty where that is no range.
MethodsFrom(start, end) == [k \in 1 .. end - start |-> out.methods[start + k]]

\* The first type is <Module>.
PrintType ==
  /\ status = "types"
  /\ pos <= Len(out.types)
  /\ out' = IF out.types[pos].name = 1 THEN out
            ELSE [out EXCEPT !.printed = Append(@,
                    [type |-> out.types[pos].name,
                     methods |-> MethodsFrom(Less1(out.types[pos].first), EndOfMethods(pos))])]
  /\ pos' = pos + 1
  /\ UNCHANGED <<input, stack, status>>

EndOfTypes ==
  /\ status = "types"
  /\ pos > Len(out.types)
  /\ status' = "done"
  /\ UNCHANGED <<input, pos, stack, out>>

Next == \/ SkipTable \/ ReadTypes \/ ReadMethods \/ Truncated
        \/ EndOfTables \/ PrintType \/ EndOfTypes

Spec == Init /\ [][Next]_vars

-----------------------------------------------------------------------------
\* Assemblies as a compiler writes them.
AssembliesAssumption ==
  /\ Wide \in Nat
  /\ \A a \in Assemblies :
       /\ a.types \in Seq([methods : Nat])
       /\ \A t \in DOMAIN a.rows : a.rows[t] \in Nat
       /\ a.cut \in 0 .. Len(Tables(a))

-----------------------------------------------------------------------------
\* Every type but <Module> is printed under its own name with exactly its own methods,
\* whatever the widths of heaps and indices make of the rows before them: the size by
\* which a table is skipped is the size of its columns, and the methods of the types
\* divide the table of methods.  Tables that are cut off are refused.
TypesReadBack ==
  status \in {"done", "end"} =>
    LET a == input.assembly
    IN  IF a.cut > 0 THEN status = "end"
        ELSE /\ status = "done"
             /\ out.printed = [i \in 1 .. Len(a.types) - 1 |->
                  [type |-> i + 1,
                   methods |-> [k \in 1 .. a.types[i + 1].methods |-> FirstMethod(a, i + 1) + k - 1]]]
=============================================================================
