-------------------------------- MODULE Dex --------------------------------
(***************************************************************************)
(* Reading a DEX file: DexFile::parse, parse_class_data, render_class and  *)
(* decompile_dex of src/src/engines/dex.rs, beside the file as a compiler  *)
(* writes it.                                                              *)
(*                                                                         *)
(* `input' has the tables [types, methods, classes]; a class has the       *)
(* numbers of its class data, each one ULEB128.  `stack' holds the class   *)
(* that is read: the fields, direct and virtual methods left, and method_idx. *)
(***************************************************************************)
EXTENDS Integers, Sequences

CONSTANTS
  Programs,   \* what is compiled: [types, methods, classes, cut, outside]
  MaxEntries  \* the limits of the tables and of class data, millions in the code

VARIABLES input, pos, stack, out, status

vars == <<input, pos, stack, out, status>>

-----------------------------------------------------------------------------
(***************************************************************************)
(* The file.  Methods are numbered; a class lists the numbers of its direct *)
(* and of its virtual methods, each ascending, each number as its distance *)
(* from the one before.                                                    *)
(***************************************************************************)
\* Three numbers for a method: the difference, access flags and the code offset.
Encoded(numbers) ==
  [k \in 1 .. 3 * Len(numbers) |->
     LET i == (k + 2) \div 3
     IN  CASE k % 3 = 1 -> IF i = 1 THEN numbers[1] ELSE numbers[i] - numbers[i - 1]
           [] k % 3 = 2 -> 1
           [] k % 3 = 0 -> 16 * numbers[i]]

\* Two for a field, which nothing depends on.
ClassData(c) ==
  IF c.fields + Len(c.direct) + Len(c.virtual) = 0 THEN <<>>
  ELSE <<c.fields, 0, Len(c.direct), Len(c.virtual)>>
         \o [k \in 1 .. 2 * c.fields |-> 2] \o Encoded(c.direct) \o Encoded(c.virtual)

DataOf(p, c) ==
  IF p.cut /\ ClassData(c) # <<>> THEN SubSeq(ClassData(c), 1, Len(ClassData(c)) - 1) ELSE ClassData(c)

\* What is to be printed of the first methods of a class: those that are its own.
Listed(c) == c.direct \o c.virtual

Own(p, c) ==
  LET own[n \in 0 .. Len(Listed(c))] ==
        IF n = 0 THEN <<>>
        ELSE IF Listed(c)[n] < Len(p.methods) /\ p.methods[Listed(c)[n] + 1] = c.type
             THEN Append(own[n - 1], Listed(c)[n]) ELSE own[n - 1]
  IN  own

-----------------------------------------------------------------------------
Class == input.classes[pos]
Data  == Class.data
Frame == Head(stack)

Init ==
  /\ \E p \in Programs :
       input = [program |-> p, types |-> p.types, methods |-> p.methods, outside |-> p.outside,
                classes |-> [i \in DOMAIN p.classes |->
                               [type |-> p.classes[i].type, data |-> DataOf(p, p.classes[i])]]]
  /\ pos = 1 /\ stack = <<>> /\ out = <<>>
  /\ status = "tables"

Fail(error) == status' = error /\ UNCHANGED <<input, pos, stack, out>>

TooMany == \/ Len(input.types) > MaxEntries
           \/ Len(input.methods) > MaxEntries
           \/ Len(input.classes) > MaxEntries

\* The tables of strings, types, prototypes, methods and classes.
ParseTables ==
  /\ status = "tables"
  /\ ~TooMany /\ ~input.outside
  /\ status' = "class"
  /\ UNCHANGED <<input, pos, stack, out>>

\* A table that is too large, or (checked_slice) not in the file.
BadTable ==
  /\ status = "tables"
  /\ TooMany \/ input.outside
  /\ Fail("table")

\* render_class: class-data offset 0 is a class without methods.
BeginClass ==
  /\ status = "class"
  /\ pos <= Len(input.classes)
  /\ IF Data = <<>>
     THEN /\ stack' = <<[at |-> 1, fields |-> 0, lists |-> <<0, 0>>, number |-> 0]>>
          /\ status' = "methods"
     ELSE IF Data[1] + Data[2] > MaxEntries \/ Data[3] + Data[4] > MaxEntries
          THEN status' = "limit" /\ UNCHANGED stack
          ELSE /\ stack' = <<[at |-> 5, fields |-> Data[1] + Data[2],
                              lists |-> <<Data[3], Data[4]>>, number |-> 0]>>
               /\ status' = "methods"
  /\ out' = Append(out, [type |-> Class.type, methods |-> <<>>])
  /\ UNCHANGED <<input, pos>>

SkipField ==
  /\ status = "methods"
  /\ Frame.fields > 0
  /\ Frame.at + 1 <= Len(Data)
  /\ stack' = <<[Frame EXCEPT !.fields = @ - 1, !.at = @ + 2]>>
  /\ UNCHANGED <<input, pos, out, status>>

\* Mutant: the virtual methods go on from the last direct one.
GoOn(number) == number

\* `let mut method_idx = 0' at the head of each list.
Restart(number) == 0

\* A method that is not in the table, or is another class's, is left out.
IsOwn(number) == number < Len(input.methods) /\ input.methods[number + 1] = Class.type

ReadMethod ==
  /\ status = "methods"
  /\ Frame.fields = 0 /\ Head(Frame.lists) > 0
  /\ Frame.at + 2 <= Len(Data)
  /\ LET number == Frame.number + Data[Frame.at]
     IN  /\ stack' = <<[Frame EXCEPT !.lists[1] = @ - 1, !.at = @ + 3, !.number = number]>>
         /\ out' = IF ~IsOwn(number) THEN out
                   ELSE [out EXCEPT ![pos].methods =
                           Append(@, [number |-> number, code |-> Data[Frame.at + 2]])]
  /\ UNCHANGED <<input, pos, status>>

NextList ==
  /\ status = "methods"
  /\ Frame.fields = 0 /\ Head(Frame.lists) = 0 /\ Len(Frame.lists) = 2
  /\ stack' = <<[Frame EXCEPT !.lists = Tail(@), !.number = Restart(@)]>>
  /\ UNCHANGED <<input, pos, out, status>>

EndOfClass ==
  /\ status = "methods"
  /\ Frame.fields = 0 /\ Frame.lists = <<0>>
  /\ pos' = pos + 1
  /\ stack' = <<>>
  /\ status' = "class"
  /\ UNCHANGED <<input, out>>

\* Class data that ends early is an error of the whole file.
Truncated ==
  /\ status = "methods"
  /\ \/ Frame.fields > 0 /\ Frame.at + 1 > Len(Data)
     \/ Frame.fields = 0 /\ Head(Frame.lists) > 0 /\ Frame.at + 2 > Len(Data)
  /\ Fail("end")

\* Without a class there is a summary.
EndOfFile ==
  /\ status = "class"
  /\ pos > Len(input.classes)
  /\ status' = IF out = <<>> THEN "summary" ELSE "done"
  /\ UNCHANGED <<input, pos, stack, out>>

Next ==
  \/ ParseTables \/ BadTable
  \/ BeginClass \/ SkipField \/ ReadMethod \/ NextList \/ EndOfClass
  \/ Truncated \/ EndOfFile

Spec == Init /\ [][Next]_vars

-----------------------------------------------------------------------------
\* Programs as a compiler writes them.
Compiled == [type : STRING, fields : Nat, direct : Seq(Nat), virtual : Seq(Nat)]

ProgramsAssumption ==
  /\ MaxEntries \in Nat
  /\ \A p \in Programs : p.cut \in BOOLEAN /\ p.outside \in BOOLEAN /\ p.classes \in Seq(Compiled)

Ended == status \notin {"tables", "class", "methods"}

Sound(p) ==
  /\ ~p.outside /\ ~TooMany
  /\ \A i \in DOMAIN p.classes :
       LET c == p.classes[i]
       IN  /\ p.cut => ClassData(c) = <<>>
           /\ c.fields <= MaxEntries
           /\ Len(c.direct) + Len(c.virtual) <= MaxEntries

\* Each class of a file is printed with its own methods, direct and virtual, each
\* under its number and with its own code, and with no other class's, whatever
\* fields and methods stand before it; and a file is refused as a whole when the data
\* of one class is cut off or too large.
ClassesReadBack ==
  Ended =>
    IF Sound(input.program)
    THEN /\ status \in {"done", "summary"}
         /\ Len(out) = Len(input.program.classes)
         /\ \A i \in DOMAIN out :
              LET c   == input.program.classes[i]
                  own == Own(input.program, c)[Len(Listed(c))]
              IN  out[i].methods = [k \in DOMAIN own |-> [number |-> own[k], code |-> 16 * own[k]]]
    ELSE status \notin {"done", "summary"}
=============================================================================
