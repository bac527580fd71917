------------------------------ MODULE Imports ------------------------------
(***************************************************************************)
(* The import slots of a Windows image: imports, rva_to_offset and         *)
(* import_name_rva of src/src/engines/native_v050/pe.rs.                   *)
(*                                                                         *)
(* A cell stands for one field: of a descriptor, a thunk (`pointer' cells, *)
(* as thunks are wider in PE32+), a hint, or the text of a name.           *)
(***************************************************************************)
EXTENDS Integers, SequencesExt

CONSTANTS
  LinkedImages,     \* [dlls, pointer, tail, low, directory, cut]
  MaxDescriptors,   \* 4,096
  MaxThunks         \* 65,536, of one descriptor and of all

VARIABLES input, pos, stack, out, status

vars == <<input, pos, stack, out, status>>

Cell(n)  == [n |-> n, ordinal |-> FALSE, text |-> ""]
Text(s)  == [n |-> 1, ordinal |-> FALSE, text |-> s]
Zeros(n) == [i \in 1 .. n |-> Cell(0)]

-----------------------------------------------------------------------------
(* What a linker writes: the headers, a section with the slots, and one    *)
(* with the descriptors, the names and the lookup tables.  The last `tail' *)
(* cells of a section are zero and not stored.  A DLL is [name, imports,   *)
(* lookup, bound]: `bound' slots hold addresses, in place of names.        *)

Headers == 2
SlotsVa == 10
DataVa  == 100
Imported(dlls) == FoldLeft(LAMBDA n, d : n + Len(d.imports), 0, dlls)

\* Where things are; of the DLLs before number i, or after it if their slots go down.
TableSize(p, dlls) == p.pointer * (Imported(dlls) + Len(dlls))
SlotsAt(p, i)  == SlotsVa + TableSize(p, IF p.low THEN SubSeq(p.dlls, i + 1, Len(p.dlls)) ELSE SubSeq(p.dlls, 1, i - 1))
NamesVa(p)     == DataVa + 5 * (Len(p.dlls) + 1)
DllAt(p, i)    == NamesVa(p) + i - 1
HintAt(p, i, k) == NamesVa(p) + Len(p.dlls) + 2 * (Imported(SubSeq(p.dlls, 1, i - 1)) + k - 1)
LookupVa(p)    == NamesVa(p) + Len(p.dlls) + 2 * Imported(p.dlls)
LookupAt(p, i) == LookupVa(p) + TableSize(p, SubSeq(p.dlls, 1, i - 1))

Thunk(p, i, k) == IF p.dlls[i].imports[k].ordinal THEN [n |-> 1, ordinal |-> TRUE, text |-> p.dlls[i].imports[k].name]
                  ELSE Cell(HintAt(p, i, k))

TableOf(p, i, bound) ==
  FlattenSeq([k \in DOMAIN p.dlls[i].imports |->
                <<IF bound THEN Cell(500) ELSE Thunk(p, i, k)>> \o Zeros(p.pointer - 1)]) \o Zeros(p.pointer)

Slots(p) ==
  LET tables == [i \in DOMAIN p.dlls |-> TableOf(p, i, p.dlls[i].bound)]
  IN  FlattenSeq(IF p.low THEN Reverse(tables) ELSE tables)

Data(p) ==
  FlattenSeq([i \in DOMAIN p.dlls |->
     <<Cell(IF p.dlls[i].lookup THEN LookupAt(p, i) ELSE 0), Cell(0), Cell(0), Cell(DllAt(p, i)), Cell(SlotsAt(p, i))>>])
  \o Zeros(5)
  \o [i \in DOMAIN p.dlls |-> Text(p.dlls[i].name)]
  \o FlattenSeq([i \in DOMAIN p.dlls |-> FlattenSeq([k \in DOMAIN p.dlls[i].imports |->
                   <<Cell(0), Text(p.dlls[i].imports[k].name)>>])])
  \o FlattenSeq([i \in DOMAIN p.dlls |-> TableOf(p, i, FALSE)])

Stored(p, cells) == SubSeq(cells, 1, Len(cells) - p.tail)

FileOf(p) == LET whole == Zeros(Headers) \o Stored(p, Slots(p)) \o Stored(p, Data(p))
             IN  SubSeq(whole, 1, Len(whole) - p.cut)

SectionsOf(p) ==
  LET slots == Len(Slots(p))
      data  == Len(Data(p))
  IN  <<[va |-> SlotsVa, virtual |-> slots, raw |-> slots - p.tail, pointer |-> Headers],
        [va |-> DataVa, virtual |-> data, raw |-> data - p.tail, pointer |-> Headers + slots - p.tail]>>

-----------------------------------------------------------------------------
File     == input.file
Missing  == -1

\* rva_to_offset: only the part of a section that is stored has an offset.
Offset(rva) ==
  LET inside(s) == s.va <= rva /\ rva < s.va + (IF s.virtual > s.raw THEN s.virtual ELSE s.raw)
      section == SelectSeq(input.sections, inside)
      offset == IF rva < Headers THEN rva
                ELSE IF section = <<>> \/ rva - section[1].va >= section[1].raw THEN Missing
                ELSE section[1].pointer + rva - section[1].va
  IN  IF offset < Len(File) THEN offset ELSE Missing

Has(offset) == offset \in 0 .. Len(File) - 1
At(offset)  == File[offset + 1]
TextAt(offset, other) == IF Has(offset) THEN (IF At(offset).text # "" THEN At(offset).text ELSE other) ELSE other

\* `pos' is the offset of the next descriptor, `stack' the table being read.
Init ==
  /\ input \in {[image |-> p, file |-> FileOf(p), sections |-> SectionsOf(p)] : p \in LinkedImages}
  /\ pos = 0 /\ stack = <<>> /\ out = <<>>
  /\ status = "layout"

\* The data directory, if the image has one.
FindDirectory ==
  /\ status = "layout"
  /\ LET found == IF input.image.directory = 0 THEN Missing ELSE Offset(input.image.directory)
     IN  IF found = Missing THEN status' = "none" /\ UNCHANGED pos
         ELSE status' = "descriptors" /\ pos' = found
  /\ UNCHANGED <<input, stack, out>>

Read == (pos - Offset(input.image.directory)) \div 5    \* the descriptors read
CanRead == Read < MaxDescriptors /\ Len(out) < MaxThunks /\ Has(pos) /\ Has(pos + 3) /\ Has(pos + 4)
Null    == At(pos).n = 0 /\ At(pos + 3).n = 0 /\ At(pos + 4).n = 0

\* Mutant: the names are read where the slots are.
FirstThunk(original, first) == first

\* The lookup table, which binding leaves alone, and only without one the slots.
NamesTable(original, first) == IF original # 0 THEN original ELSE first

\* A table is [dll, at, slots, index].
ReadDescriptor ==
  /\ status = "descriptors" /\ stack = <<>>
  /\ CanRead /\ ~Null
  /\ stack' = <<[dll   |-> TextAt(Offset(At(pos + 3).n), "unknown"),
                 at    |-> NamesTable(At(pos).n, At(pos + 4).n),
                 slots |-> At(pos + 4).n,
                 index |-> 0]>>
  /\ pos' = pos + 5
  /\ UNCHANGED <<input, out, status>>

Table     == Head(stack)
Entry     == Offset(Table.at + Table.index * input.image.pointer)
HasEntry  == Table.index < MaxThunks /\ Len(out) < MaxThunks
             /\ Has(Entry) /\ (At(Entry).n # 0 \/ At(Entry).ordinal)

ReadThunk ==
  /\ stack # <<>> /\ HasEntry
  /\ out' = Append(out, [dll  |-> Table.dll,
                         name |-> IF At(Entry).ordinal THEN At(Entry).text
                                  ELSE IF Offset(At(Entry).n) = Missing THEN "import"
                                  ELSE TextAt(Offset(At(Entry).n) + 1, "import"),
                         slot |-> Table.slots + Table.index * input.image.pointer])
  /\ stack' = <<[Table EXCEPT !.index = @ + 1]>>
  /\ UNCHANGED <<input, pos, status>>

EndOfTable ==
  /\ stack # <<>> /\ ~HasEntry
  /\ stack' = <<>>
  /\ UNCHANGED <<input, pos, out, status>>

\* sort_by_key and dedup_by_key: one import for each slot, in the order of the slots.
SortSlots ==
  /\ status = "descriptors" /\ stack = <<>>
  /\ CanRead => Null
  /\ LET slots == {r.slot : r \in ToSet(out)}
         first(s) == out[CHOOSE i \in DOMAIN out : out[i].slot = s /\ \A j \in 1 .. i - 1 : out[j].slot # s]
         sorted == SetToSortSeq(slots, <)
     IN  out' = [i \in DOMAIN sorted |-> first(sorted[i])]
  /\ status' = "done"
  /\ UNCHANGED <<input, pos, stack>>

Next == FindDirectory \/ ReadDescriptor \/ ReadThunk \/ EndOfTable \/ SortSlots

Spec == Init /\ [][Next]_vars

-----------------------------------------------------------------------------
Linked(p) == UNION {{[dll |-> p.dlls[i].name, name |-> p.dlls[i].imports[k].name,
                      slot |-> SlotsAt(p, i) + (k - 1) * p.pointer] : k \in DOMAIN p.dlls[i].imports} :
                    i \in DOMAIN p.dlls}

\* A call through a slot is printed with the function the loader puts there: in a whole
\* image each slot is listed once, with its DLL and its name, though binding has
\* overwritten the slots in the file or the end of a table is not stored; of a damaged
\* image at most slots that the loader fills are listed.
SlotsNamed ==
  LET p == input.image
      slots == {r.slot : r \in Linked(p)}
  IN  /\ status = "none" => p.directory = 0 \/ p.cut # 0
      /\ status = "done" =>
        /\ \A i, j \in DOMAIN out : i < j => out[i].slot < out[j].slot
        /\ p.cut = 0 /\ Imported(p.dlls) <= MaxThunks /\ Len(p.dlls) <= MaxDescriptors => ToSet(out) = Linked(p)
        /\ {r.slot : r \in ToSet(out)} \subseteq slots
=============================================================================
